---- MODULE Spec2Model ----
(***************************************************************************)
(* Model of the trend-following trading bot: the strategy                  *)
(* (src/src/strategy.py), the risk manager (src/src/risk_manager.py) and   *)
(* the trading cycle of the bot (src/src/trading_bot.py).                  *)
(*                                                                         *)
(* Numbers are integers.  Prices and amounts are whole units, percentages  *)
(* are whole percents, volume_ratio is in tenths.  A float that is         *)
(* not-a-number is the value NaN, and every comparison with it is false,   *)
(* as in IEEE arithmetic.                                                  *)
(***************************************************************************)
EXTENDS Integers, Sequences, FiniteSets, TLC

VARIABLES
    config,    \* the configuration dictionary the objects were built with
    df,        \* the candle window a pure function of the strategy is applied to
    strategy,  \* TrendFollowingStrategy: current_position, entry_price, last_signal, trend_direction
    risk,      \* RiskManager: daily counters, drawdowns, last_reset_date
    bot,       \* TradingBot: position, entry price, counters, flags
    today,     \* the calendar date of the engine-local clock
    pc,        \* "ready" before a call, "returned" after it; "idle" between cycles of the bot
    last       \* the last call: its name, its arguments, its result

vars == <<config, df, strategy, risk, bot, today, pc, last>>

----------------------------------------------------------------------------
(* Bounds of the model *)

MaxAmount == 2      \* amounts passed to update_position are 1..MaxAmount
MaxPrice == 3       \* prices passed to update_position are 1..MaxPrice
MaxPosition == 4    \* the ledger is explored while |current_position| <= MaxPosition

----------------------------------------------------------------------------
(* Enumerations *)

SignalType == {"BUY", "SELL", "LONG", "SHORT", "CLOSE_LONG", "CLOSE_SHORT", "HOLD"}
TrendDirection == {"UP", "DOWN", "SIDEWAYS"}

(* The undefined indicator value. *)
NaN == -1000000

Max(S) == CHOOSE x \in S : \A y \in S : y <= x
Abs(x) == IF x < 0 THEN -x ELSE x
B2N(b) == IF b THEN 1 ELSE 0

(* a > b and a < b on floats: false when either side is NaN *)
GtF(a, b) == a # NaN /\ b # NaN /\ a > b
LtF(a, b) == a # NaN /\ b # NaN /\ a < b

----------------------------------------------------------------------------
(* Configuration *)

(* config['strategy']['indicators'] of a typical configuration: the periods *)
(* and the thresholds live in the same dictionary.                          *)
TypicalIndicators ==
    [ema_fast |-> 12, ema_slow |-> 26,
     macd_fast |-> 12, macd_slow |-> 26, macd_signal |-> 9,
     adx_period |-> 14, adx_threshold |-> 25,
     bb_period |-> 20, bb_std |-> 2,
     rsi_period |-> 14, rsi_overbought |-> 70, rsi_oversold |-> 30]

(* The same with a slow EMA of 200 candles: a lookback period is the        *)
(* largest value of the dictionary.                                         *)
LongIndicators == [TypicalIndicators EXCEPT !.ema_slow = 200]

IndicatorConfigs == {TypicalIndicators, LongIndicators}

(* config['strategy']['signals']['volume_threshold'], in tenths (1.5) *)
volume_threshold == 15

(* config['trading']['trade_type']: the two values the code knows, and one it does not *)
TradeTypes == {"spot", "futures", "margin"}

(* config['strategy']['risk_management'] and config['trading']['trade_amount'] *)
TypicalRisk ==
    [stop_loss_pct |-> 10, take_profit_pct |-> 10,
     max_daily_trades |-> 2, max_position_size |-> 1]

MakeConfig(tt, ind) ==
    [trade_type |-> tt, indicators |-> ind,
     risk_management |-> TypicalRisk, trade_amount |-> 1]

(* the names of the lookback periods among the indicator settings *)
PeriodKeys == {"ema_fast", "ema_slow", "macd_fast", "macd_slow", "macd_signal",
               "adx_period", "bb_period", "rsi_period"}

LargestLookback(ind) == Max({ind[k] : k \in PeriodKeys})

(* max(self.indicators_config.values()) *)
MaxIndicatorValue(ind) == Max({ind[k] : k \in DOMAIN ind})

----------------------------------------------------------------------------
(* Objects after construction *)

StrategyInit ==
    [current_position |-> 0, last_signal |-> "HOLD",
     entry_price |-> 0, trend_direction |-> "SIDEWAYS"]

RiskInit ==
    [daily_trades_count |-> 0, daily_pnl |-> 0, max_drawdown |-> 0,
     current_drawdown |-> 0, last_reset_date |-> 0]

BotInit ==
    [is_running |-> FALSE, is_trading_enabled |-> TRUE,
     current_position |-> 0, entry_price |-> 0,
     total_trades |-> 0, successful_trades |-> 0, total_pnl |-> 0]

NoWindow == [len |-> 0]
NoCall == [op |-> "none"]

----------------------------------------------------------------------------
(* TrendFollowingStrategy.update_position *)

(* a plausible slip: the signs of entry and exit are exchanged *)
update_position_signs_exchanged(st, signal_type, amount, price) ==
    IF signal_type \in {"BUY", "LONG"}
    THEN [st EXCEPT !.current_position = @ - amount, !.entry_price = price]
    ELSE IF signal_type \in {"SELL", "SHORT"}
    THEN [st EXCEPT !.current_position = @ + amount, !.entry_price = price]
    ELSE IF signal_type \in {"CLOSE_LONG", "CLOSE_SHORT"}
    THEN [st EXCEPT !.current_position = 0, !.entry_price = 0]
    ELSE st

update_position(st, signal_type, amount, price) ==
    IF signal_type \in {"BUY", "LONG"}
    THEN [st EXCEPT !.current_position = @ + amount, !.entry_price = price]
    ELSE IF signal_type \in {"SELL", "SHORT"}
    THEN [st EXCEPT !.current_position = @ - amount, !.entry_price = price]
    ELSE IF signal_type \in {"CLOSE_LONG", "CLOSE_SHORT"}
    THEN [st EXCEPT !.current_position = 0, !.entry_price = 0]
    ELSE st

(* A caller applies a signal to the strategy's ledger. *)
UpdatePosition ==
    /\ pc = "ready"
    /\ \E signal_type \in SignalType, amount \in 1..MaxAmount, price \in 1..MaxPrice :
         LET st == update_position(strategy, signal_type, amount, price) IN
         /\ Abs(st.current_position) <= MaxPosition
         /\ strategy' = st
         /\ last' = [op |-> "update_position", signal_type |-> signal_type,
                     amount |-> amount, price |-> price, before |-> strategy]
    /\ UNCHANGED <<config, df, risk, bot, today, pc>>

InitLedger ==
    /\ config \in {MakeConfig(tt, TypicalIndicators) : tt \in {"spot", "futures"}}
    /\ df = NoWindow
    /\ strategy = StrategyInit
    /\ risk = RiskInit
    /\ bot = BotInit
    /\ today = 0
    /\ pc = "ready"
    /\ last = NoCall

NextLedger == UpdatePosition

SpecLedger == InitLedger /\ [][NextLedger]_vars

----------------------------------------------------------------------------
(* C1: ledger invariant of the strategy: after any sequence of            *)
(* update_position calls, current_position = 0 if and only if             *)
(* entry_price = 0.                                                        *)
C1_LedgerIff ==
    (strategy.current_position = 0) <=> (strategy.entry_price = 0)

----------------------------------------------------------------------------
(* Candle windows.  A window is its length, its latest row and its        *)
(* previous row; of the previous row the code reads only close and        *)
(* macd_histogram.                                                        *)

MakeWindow(n, latest, prev) ==
    IF n = 0 THEN [len |-> 0]
    ELSE IF n = 1 THEN [len |-> 1, latest |-> latest]
    ELSE [len |-> n, latest |-> latest, prev |-> prev]

(* df.iloc[-2] if len(df) > 1 else latest *)
PrevOrLatest(w) == IF w.len > 1 THEN w.prev ELSE w.latest

----------------------------------------------------------------------------
(* TrendFollowingStrategy.detect_trend *)

conditions(w, ind) ==
    LET latest == w.latest IN
    [ema_trend          |-> GtF(latest.ema_fast, latest.ema_slow),
     macd_trend         |-> GtF(latest.macd, latest.macd_signal),
     adx_strong         |-> GtF(latest.adx, ind.adx_threshold),
     price_above_bb_mid |-> GtF(latest.close, latest.bb_middle),
     adx_direction      |-> GtF(latest.adx_pos, latest.adx_neg)]

uptrend_score(w, ind) ==
    LET c == conditions(w, ind) IN
      B2N(c.ema_trend)
    + B2N(c.macd_trend)
    + B2N(c.adx_strong /\ c.adx_direction)
    + B2N(c.price_above_bb_mid)
    + B2N(GtF(w.latest.close, PrevOrLatest(w).close))

(* a plausible slip: the third vote is the negation of the up-score's *)
downtrend_score_negated(w, ind) ==
    LET c == conditions(w, ind) IN
      B2N(~c.ema_trend)
    + B2N(~c.macd_trend)
    + B2N(~(c.adx_strong /\ c.adx_direction))
    + B2N(~c.price_above_bb_mid)
    + B2N(LtF(w.latest.close, PrevOrLatest(w).close))

(* a plausible slip: a strong ADX votes down whatever its direction *)
downtrend_score_any_direction(w, ind) ==
    LET c == conditions(w, ind) IN
      B2N(~c.ema_trend)
    + B2N(~c.macd_trend)
    + B2N(c.adx_strong)
    + B2N(~c.price_above_bb_mid)
    + B2N(LtF(w.latest.close, PrevOrLatest(w).close))

downtrend_score(w, ind) ==
    LET c == conditions(w, ind) IN
      B2N(~c.ema_trend)
    + B2N(~c.macd_trend)
    + B2N(c.adx_strong /\ ~c.adx_direction)
    + B2N(~c.price_above_bb_mid)
    + B2N(LtF(w.latest.close, PrevOrLatest(w).close))

(* An empty frame makes df.iloc[-1] raise; the handler returns SIDEWAYS. *)
detect_trend(w, ind) ==
    IF w.len = 0 THEN "SIDEWAYS"
    ELSE IF uptrend_score(w, ind) >= 3 THEN "UP"
    ELSE IF downtrend_score(w, ind) >= 3 THEN "DOWN"
    ELSE "SIDEWAYS"

----------------------------------------------------------------------------
(* TrendFollowingStrategy.generate_signal *)

(* a plausible slip: the threshold itself confirms *)
volume_confirmed_at_threshold(w) ==
    w.latest.volume_ratio # NaN /\ w.latest.volume_ratio >= volume_threshold

volume_confirmed(w) == GtF(w.latest.volume_ratio, volume_threshold)

(* a plausible slip: RSI at the overbought threshold still buys *)
SpotBuy_rsi_inclusive(w, ind, current_trend, position) ==
    /\ current_trend = "UP"
    /\ GtF(w.latest.ema_fast, w.latest.ema_slow)
    /\ GtF(w.latest.macd, w.latest.macd_signal)
    /\ GtF(w.latest.macd_histogram, w.prev.macd_histogram)
    /\ w.latest.rsi # NaN /\ w.latest.rsi <= ind.rsi_overbought
    /\ volume_confirmed(w)
    /\ position <= 0

(* the condition of the BUY branch *)
SpotBuy(w, ind, current_trend, position) ==
    /\ current_trend = "UP"
    /\ GtF(w.latest.ema_fast, w.latest.ema_slow)
    /\ GtF(w.latest.macd, w.latest.macd_signal)
    /\ GtF(w.latest.macd_histogram, w.prev.macd_histogram)
    /\ LtF(w.latest.rsi, ind.rsi_overbought)
    /\ volume_confirmed(w)
    /\ position <= 0

(* the condition of the SELL branch *)
SpotSell(w, ind, current_trend, position) ==
    /\ current_trend = "DOWN"
    /\ LtF(w.latest.ema_fast, w.latest.ema_slow)
    /\ LtF(w.latest.macd, w.latest.macd_signal)
    /\ LtF(w.latest.macd_histogram, w.prev.macd_histogram)
    /\ GtF(w.latest.rsi, ind.rsi_oversold)
    /\ volume_confirmed(w)
    /\ position > 0

SpotSignal(w, ind, current_trend, position) ==
    IF SpotBuy(w, ind, current_trend, position) THEN "BUY"
    ELSE IF SpotSell(w, ind, current_trend, position) THEN "SELL"
    ELSE "HOLD"

(* the conditions of the LONG, SHORT, CLOSE_LONG and CLOSE_SHORT branches *)
FuturesLong(w, current_trend, position) ==
    /\ current_trend = "UP"
    /\ GtF(w.latest.ema_fast, w.latest.ema_slow)
    /\ GtF(w.latest.macd, w.latest.macd_signal)
    /\ GtF(w.latest.close, w.latest.bb_middle)
    /\ volume_confirmed(w)
    /\ position <= 0

FuturesShort(w, current_trend, position) ==
    /\ current_trend = "DOWN"
    /\ LtF(w.latest.ema_fast, w.latest.ema_slow)
    /\ LtF(w.latest.macd, w.latest.macd_signal)
    /\ LtF(w.latest.close, w.latest.bb_middle)
    /\ volume_confirmed(w)
    /\ position >= 0

FuturesCloseLong(w, current_trend, position) ==
    /\ position > 0
    /\ \/ current_trend = "DOWN"
       \/ LtF(w.latest.ema_fast, w.latest.ema_slow)
       \/ LtF(w.latest.macd, w.latest.macd_signal)

FuturesCloseShort(w, current_trend, position) ==
    /\ position < 0
    /\ \/ current_trend = "UP"
       \/ GtF(w.latest.ema_fast, w.latest.ema_slow)
       \/ GtF(w.latest.macd, w.latest.macd_signal)

(* a plausible slip: the closing rules are tested before the entries *)
FuturesSignal_closes_first(w, current_trend, position) ==
    IF FuturesCloseLong(w, current_trend, position) THEN "CLOSE_LONG"
    ELSE IF FuturesCloseShort(w, current_trend, position) THEN "CLOSE_SHORT"
    ELSE IF FuturesLong(w, current_trend, position) THEN "LONG"
    ELSE IF FuturesShort(w, current_trend, position) THEN "SHORT"
    ELSE "HOLD"

FuturesSignal(w, current_trend, position) ==
    IF FuturesLong(w, current_trend, position) THEN "LONG"
    ELSE IF FuturesShort(w, current_trend, position) THEN "SHORT"
    ELSE IF FuturesCloseLong(w, current_trend, position) THEN "CLOSE_LONG"
    ELSE IF FuturesCloseShort(w, current_trend, position) THEN "CLOSE_SHORT"
    ELSE "HOLD"

(* a plausible slip: only the lookback periods are looked at *)
TooShort_periods_only(w, ind) == w.len < LargestLookback(ind)

(* len(df) < max(self.indicators_config.values()) *)
TooShort(w, ind) == w.len < MaxIndicatorValue(ind)

(* a plausible slip: the trend is read from the cache before it is        *)
(* refreshed                                                              *)
generate_signal_cached_trend(w, st, cfg) ==
    LET ind == cfg.indicators IN
    IF TooShort(w, ind) \/ w.len < 2
    THEN [signal |-> "HOLD", strategy |-> st]
    ELSE LET current_trend == st.trend_direction
             signal == IF cfg.trade_type = "spot"
                       THEN SpotSignal(w, ind, current_trend, st.current_position)
                       ELSE IF cfg.trade_type = "futures"
                       THEN FuturesSignal(w, current_trend, st.current_position)
                       ELSE "HOLD"
         IN [signal |-> signal,
             strategy |-> [st EXCEPT !.trend_direction = detect_trend(w, ind),
                                     !.last_signal = signal]]

(* The result of generate_signal: the signal returned and the strategy    *)
(* after the call.  A window that is too short returns HOLD at once; a    *)
(* window of fewer than two rows makes df.iloc[-2] raise, and the handler *)
(* returns HOLD; in both cases the cached fields are not written.         *)
generate_signal(w, st, cfg) ==
    LET ind == cfg.indicators IN
    IF TooShort(w, ind) \/ w.len < 2
    THEN [signal |-> "HOLD", strategy |-> st]
    ELSE LET current_trend == detect_trend(w, ind)
             signal == IF cfg.trade_type = "spot"
                       THEN SpotSignal(w, ind, current_trend, st.current_position)
                       ELSE IF cfg.trade_type = "futures"
                       THEN FuturesSignal(w, current_trend, st.current_position)
                       ELSE "HOLD"
         IN [signal |-> signal,
             strategy |-> [st EXCEPT !.trend_direction = current_trend,
                                     !.last_signal = signal]]

----------------------------------------------------------------------------
(* Inputs of the strategy's pure functions *)

(* Rows with every column defined.  Each first operand is below, equal   *)
(* to or above the second operand 2 (the threshold, for adx, rsi and      *)
(* volume_ratio).                                                         *)
DefinedRows ==
    [ema_fast : {1, 2, 3}, ema_slow : {2},
     macd : {1, 2, 3}, macd_signal : {2},
     macd_histogram : {1, 2, 3},
     adx : {25, 26}, adx_pos : {2, 3}, adx_neg : {2},
     bb_middle : {1, 2, 3}, close : {2},
     rsi : {30, 50, 70},
     volume_ratio : {15, 16}]

(* Rows in which any set of columns is undefined, the others being on     *)
(* either side of the comparison.                                         *)
PartlyUndefinedRows ==
    [ema_fast : {NaN, 1, 3}, ema_slow : {2},
     macd : {NaN, 1, 3}, macd_signal : {2},
     macd_histogram : {NaN, 1, 3},
     adx : {NaN, 26}, adx_pos : {NaN, 3}, adx_neg : {2},
     bb_middle : {NaN, 1, 3}, close : {NaN, 2},
     rsi : {NaN, 50},
     volume_ratio : {NaN, 16}]

LatestRows == DefinedRows \cup PartlyUndefinedRows

PrevRows == [close : {1, 2, 3}, macd_histogram : {2}]

(* the columns detect_trend reads vary, the others are fixed *)
TrendRows ==
    {r \in LatestRows : r.macd_histogram = 3 /\ r.rsi = 50 /\ r.volume_ratio = 16}

(* A row with both operands undefined, and rows of a rising and a falling market *)
UndefinedRow ==
    [ema_fast |-> NaN, ema_slow |-> NaN, macd |-> NaN, macd_signal |-> NaN,
     macd_histogram |-> NaN, adx |-> NaN, adx_pos |-> NaN, adx_neg |-> NaN,
     bb_middle |-> NaN, close |-> 2, rsi |-> NaN, volume_ratio |-> NaN]

RisingRow ==
    [ema_fast |-> 3, ema_slow |-> 2, macd |-> 3, macd_signal |-> 2,
     macd_histogram |-> 3, adx |-> 26, adx_pos |-> 3, adx_neg |-> 2,
     bb_middle |-> 1, close |-> 2, rsi |-> 50, volume_ratio |-> 16]

FallingRow ==
    [ema_fast |-> 1, ema_slow |-> 2, macd |-> 1, macd_signal |-> 2,
     macd_histogram |-> 1, adx |-> 26, adx_pos |-> 2, adx_neg |-> 2,
     bb_middle |-> 3, close |-> 2, rsi |-> 50, volume_ratio |-> 16]

SampleRows == {UndefinedRow, RisingRow, FallingRow}

(* Window lengths around the thresholds of a configuration *)
WindowLens(ind) ==
    {0, 1, 2} \cup {m + d : m \in {LargestLookback(ind), MaxIndicatorValue(ind)},
                            d \in {-1, 0, 1}}

Positions == {-1, 0, 1}

----------------------------------------------------------------------------
(* detect_trend applied to a window *)

DetectTrend ==
    /\ pc = "ready"
    /\ \E n \in {0, 1, 2}, latest \in TrendRows, prev \in PrevRows :
         df' = MakeWindow(n, latest, prev)
    /\ last' = [op |-> "detect_trend", ret |-> detect_trend(df', config.indicators)]
    /\ pc' = "returned"
    /\ UNCHANGED <<config, strategy, risk, bot, today>>

InitTrend ==
    /\ config \in {MakeConfig("spot", ind) : ind \in IndicatorConfigs}
    /\ df = NoWindow
    /\ strategy = StrategyInit
    /\ risk = RiskInit
    /\ bot = BotInit
    /\ today = 0
    /\ pc = "ready"
    /\ last = NoCall

NextTrend == DetectTrend

SpecTrend == InitTrend /\ [][NextTrend]_vars

----------------------------------------------------------------------------
(* generate_signal applied to a window *)

(* The call: the signal is returned, the cached fields are written. *)
CallGenerateSignal(w) ==
    LET r == generate_signal(w, strategy, config) IN
    /\ df' = w
    /\ strategy' = r.strategy
    /\ last' = [op |-> "generate_signal", ret |-> r.signal, before |-> strategy]
    /\ pc' = "returned"
    /\ UNCHANGED <<config, risk, bot, today>>

(* a window of sufficient length, with every combination of comparisons *)
GenerateSignal ==
    /\ pc = "ready"
    /\ config.indicators = TypicalIndicators
    /\ config.trade_type # "margin"
    /\ \E latest \in LatestRows, prev \in PrevRows :
         CallGenerateSignal(MakeWindow(MaxIndicatorValue(config.indicators), latest, prev))

(* a sample row in a window of any length, under any configuration *)
GenerateSignalAnyLength ==
    /\ pc = "ready"
    /\ \E n \in WindowLens(config.indicators), latest \in SampleRows, prev \in PrevRows :
         CallGenerateSignal(MakeWindow(n, latest, prev))

InitSignal ==
    /\ config \in {MakeConfig(tt, ind) : tt \in TradeTypes, ind \in IndicatorConfigs}
    /\ df = NoWindow
    /\ strategy \in {[StrategyInit EXCEPT !.current_position = p] : p \in Positions}
    /\ risk = RiskInit
    /\ bot = BotInit
    /\ today = 0
    /\ pc = "ready"
    /\ last = NoCall

NextSignal == GenerateSignal \/ GenerateSignalAnyLength

SpecSignal == InitSignal /\ [][NextSignal]_vars

Returned(op) == pc = "returned" /\ last.op = op

----------------------------------------------------------------------------
(* What the claims about generate_signal speak of *)

Ind == config.indicators
Ret == last.ret
PositionBefore == last.before.current_position

(* the window was long enough for the decision to be taken *)
Decided == Returned("generate_signal") /\ df.len >= MaxIndicatorValue(Ind) /\ df.len >= 2

FastAboveSlow == GtF(df.latest.ema_fast, df.latest.ema_slow)
FastBelowSlow == LtF(df.latest.ema_fast, df.latest.ema_slow)
MacdAboveSignal == GtF(df.latest.macd, df.latest.macd_signal)
MacdBelowSignal == LtF(df.latest.macd, df.latest.macd_signal)
HistogramRising == GtF(df.latest.macd_histogram, df.prev.macd_histogram)
HistogramFalling == LtF(df.latest.macd_histogram, df.prev.macd_histogram)
CloseAboveMiddle == GtF(df.latest.close, df.latest.bb_middle)
CloseBelowMiddle == LtF(df.latest.close, df.latest.bb_middle)
VolumeAboveThreshold ==
    df.latest.volume_ratio # NaN /\ df.latest.volume_ratio > volume_threshold
Trend == strategy.trend_direction

(* C4: a window shorter than the largest lookback period plus 1 gives     *)
(* HOLD, in every mode and for every position.                            *)
C4_ShortWindowHoldsOrig ==
    (Returned("generate_signal") /\ df.len < LargestLookback(Ind) + 1)
        => Ret = "HOLD"

(* C4, amended: a window shorter than the largest value of the indicator  *)
(* settings (periods and thresholds alike, nothing added) gives HOLD, in  *)
(* every mode and for every position.                                     *)
C4_ShortWindowHolds ==
    (Returned("generate_signal") /\ df.len < MaxIndicatorValue(Ind))
        => Ret = "HOLD"

(* a rising market in a window one row short, flat, spot: HOLD *)
C4_Witness ==
    /\ Returned("generate_signal")
    /\ config.trade_type = "spot"
    /\ df.len = MaxIndicatorValue(Ind) - 1
    /\ df.latest = RisingRow
    /\ PositionBefore = 0
    /\ Ret = "HOLD"

(* C5: spot decision table on a window of sufficient length: BUY exactly  *)
(* under the seven buy conditions, SELL exactly under the seven sell      *)
(* conditions, HOLD otherwise.                                            *)
C5_BuyConditions ==
    /\ Trend = "UP" /\ FastAboveSlow /\ MacdAboveSignal /\ HistogramRising
    /\ df.latest.rsi # NaN /\ df.latest.rsi < Ind.rsi_overbought
    /\ VolumeAboveThreshold
    /\ PositionBefore <= 0

C5_SellConditions ==
    /\ Trend = "DOWN" /\ FastBelowSlow /\ MacdBelowSignal /\ HistogramFalling
    /\ df.latest.rsi # NaN /\ df.latest.rsi > Ind.rsi_oversold
    /\ VolumeAboveThreshold
    /\ PositionBefore > 0

C5_SpotTable ==
    (Decided /\ config.trade_type = "spot") =>
        /\ (Ret = "BUY") <=> C5_BuyConditions
        /\ (Ret = "SELL") <=> C5_SellConditions
        /\ (Ret = "HOLD") <=> (~C5_BuyConditions /\ ~C5_SellConditions)

(* Scenario B of the specification: flat, every buy condition met *)
C5_Witness ==
    /\ Decided /\ config.trade_type = "spot"
    /\ PositionBefore = 0
    /\ df.latest = RisingRow
    /\ Ret = "BUY"

(* C6: futures decision: the first rule that matches, in the order LONG,  *)
(* SHORT, CLOSE_LONG, CLOSE_SHORT, and HOLD when none matches.            *)
C6_Long ==
    /\ Trend = "UP" /\ FastAboveSlow /\ MacdAboveSignal /\ CloseAboveMiddle
    /\ VolumeAboveThreshold /\ PositionBefore <= 0

C6_Short ==
    /\ Trend = "DOWN" /\ FastBelowSlow /\ MacdBelowSignal /\ CloseBelowMiddle
    /\ VolumeAboveThreshold /\ PositionBefore >= 0

C6_CloseLong ==
    PositionBefore > 0 /\ (Trend = "DOWN" \/ FastBelowSlow \/ MacdBelowSignal)

C6_CloseShort ==
    PositionBefore < 0 /\ (Trend = "UP" \/ FastAboveSlow \/ MacdAboveSignal)

C6_FirstMatch ==
    (Decided /\ config.trade_type = "futures") =>
        Ret = CASE C6_Long -> "LONG"
                [] ~C6_Long /\ C6_Short -> "SHORT"
                [] ~C6_Long /\ ~C6_Short /\ C6_CloseLong -> "CLOSE_LONG"
                [] ~C6_Long /\ ~C6_Short /\ ~C6_CloseLong /\ C6_CloseShort -> "CLOSE_SHORT"
                [] OTHER -> "HOLD"

(* a long position in a falling market: SHORT and CLOSE_LONG both match,  *)
(* SHORT is listed first                                                  *)
C6_Witness ==
    /\ Decided /\ config.trade_type = "futures"
    /\ C6_Short /\ C6_CloseLong
    /\ Ret = "SHORT"

(* C7: no entry signal without volume confirmation, and no exit signal    *)
(* needs it: an exit whose other conditions hold is returned although     *)
(* volume_ratio <= volume_threshold.                                      *)
C7_EntriesGated ==
    (Returned("generate_signal") /\ Ret \in {"BUY", "LONG", "SHORT"})
        => VolumeAboveThreshold

C7_ClosesNotGated ==
    (Decided /\ config.trade_type = "futures" /\ ~VolumeAboveThreshold) =>
        /\ C6_CloseLong => Ret = "CLOSE_LONG"
        /\ C6_CloseShort => Ret = "CLOSE_SHORT"

C7_SellNotGated ==
    (/\ Decided /\ config.trade_type = "spot" /\ ~VolumeAboveThreshold
     /\ Trend = "DOWN" /\ FastBelowSlow /\ MacdBelowSignal /\ HistogramFalling
     /\ df.latest.rsi # NaN /\ df.latest.rsi > Ind.rsi_oversold
     /\ PositionBefore > 0)
        => Ret = "SELL"

C7_VolumeGatesEntriesOnlyOrig ==
    C7_EntriesGated /\ C7_ClosesNotGated /\ C7_SellNotGated

(* C7, amended: no entry signal without volume confirmation; CLOSE_LONG   *)
(* and CLOSE_SHORT do not need it; SELL does need it and is never         *)
(* returned when volume_ratio <= volume_threshold.                        *)
C7_VolumeGates ==
    /\ C7_EntriesGated
    /\ C7_ClosesNotGated
    /\ (Returned("generate_signal") /\ Ret = "SELL") => VolumeAboveThreshold

(* a long is closed on a falling market with the volume at the threshold *)
C7_Witness ==
    /\ Decided /\ config.trade_type = "futures"
    /\ df.latest.volume_ratio = volume_threshold
    /\ Ret = "CLOSE_LONG"

(* C10: an undefined indicator value on the latest or previous row never  *)
(* gives a trading signal: generate_signal returns HOLD.                  *)
HasUndefined ==
    \/ df.len >= 1 /\ \E c \in DOMAIN df.latest : df.latest[c] = NaN
    \/ df.len >= 2 /\ \E c \in DOMAIN df.prev : df.prev[c] = NaN

C10_UndefinedHolds ==
    (Returned("generate_signal") /\ HasUndefined) => Ret = "HOLD"

----------------------------------------------------------------------------
(* What the claims about detect_trend speak of *)

(* the same call on the strategy with another cached status *)
WithCache(st, last_signal, trend_direction) ==
    [st EXCEPT !.last_signal = last_signal, !.trend_direction = trend_direction]

(* C27: two strategy states that agree on the window, the position and    *)
(* the mode and differ in the cached last_signal and trend_direction get  *)
(* the same signal from generate_signal.                                  *)
C27_CacheDoesNotFeedBack ==
    Returned("generate_signal") =>
        \A ls \in SignalType, td \in TrendDirection :
            generate_signal(df, WithCache(last.before, ls, td), config).signal = Ret

(* a SHORT decided on a strategy whose cache holds HOLD and SIDEWAYS, and *)
(* decided again when the cache holds LONG and UP                         *)
C27_Witness ==
    /\ Returned("generate_signal") /\ Ret = "SHORT"
    /\ last.before.last_signal = "HOLD" /\ last.before.trend_direction = "SIDEWAYS"
    /\ strategy.last_signal = "SHORT" /\ strategy.trend_direction = "DOWN"
    /\ generate_signal(df, WithCache(last.before, "LONG", "UP"), config).signal = "SHORT"


PrevClose == PrevOrLatest(df).close
AdxAboveThreshold == GtF(df.latest.adx, Ind.adx_threshold)
PlusAboveMinus == GtF(df.latest.adx_pos, df.latest.adx_neg)

C8_UpScore ==
      B2N(FastAboveSlow) + B2N(MacdAboveSignal)
    + B2N(AdxAboveThreshold /\ PlusAboveMinus)
    + B2N(CloseAboveMiddle) + B2N(GtF(df.latest.close, PrevClose))

(* the down-score as the negation of each of the first four conditions *)
C8_DownScoreOrig ==
      B2N(~FastAboveSlow) + B2N(~MacdAboveSignal)
    + B2N(~(AdxAboveThreshold /\ PlusAboveMinus))
    + B2N(~CloseAboveMiddle) + B2N(LtF(df.latest.close, PrevClose))

(* the down-score with a strong ADX whose +DI is not above -DI as third condition *)
C8_DownScore ==
      B2N(~FastAboveSlow) + B2N(~MacdAboveSignal)
    + B2N(AdxAboveThreshold /\ ~PlusAboveMinus)
    + B2N(~CloseAboveMiddle) + B2N(LtF(df.latest.close, PrevClose))

C8_Label(up, down) ==
    IF up >= 3 THEN "UP" ELSE IF down >= 3 THEN "DOWN" ELSE "SIDEWAYS"

TrendReturned == Returned("detect_trend") /\ df.len >= 1

(* C8: the down-score counts the negation of each of the first four       *)
(* up-conditions plus close < previous close; UP when the up-score is at  *)
(* least 3, otherwise DOWN when the down-score is at least 3, otherwise   *)
(* SIDEWAYS.                                                              *)
C8_TrendClassificationOrig ==
    TrendReturned => Ret = C8_Label(C8_UpScore, C8_DownScoreOrig)

(* C8, amended: the down-score counts the negation of the EMA, MACD and   *)
(* Bollinger conditions, (ADX > threshold and +DI not above -DI), and     *)
(* close < previous close; the labels are decided as stated.              *)
C8_TrendClassification ==
    TrendReturned => Ret = C8_Label(C8_UpScore, C8_DownScore)

(* a weak ADX in an otherwise falling market: two down votes, SIDEWAYS *)
C8_Witness ==
    /\ TrendReturned
    /\ ~AdxAboveThreshold
    /\ C8_DownScoreOrig >= 3 /\ C8_UpScore < 3
    /\ Ret = "SIDEWAYS"

(* C9: the two scores never add up to more than 5, so they are never both *)
(* at least 3, the order of the two tests decides nothing, and exactly    *)
(* one label is returned.                                                 *)
C9_NoDoubleCount ==
    TrendReturned =>
        LET up == uptrend_score(df, Ind)
            down == downtrend_score(df, Ind)
        IN /\ up + down <= 5
           /\ ~(up >= 3 /\ down >= 3)
           /\ (Ret = "UP") <=> (up >= 3)
           /\ (Ret = "DOWN") <=> (down >= 3)
           /\ (Ret = "SIDEWAYS") <=> (up < 3 /\ down < 3)

(* undefined columns: every negated condition counts for the down-score *)
C9_Witness ==
    /\ TrendReturned
    /\ df.latest.ema_fast = NaN /\ df.latest.macd = NaN /\ df.latest.bb_middle = NaN
    /\ uptrend_score(df, Ind) + downtrend_score(df, Ind) >= 3
    /\ Ret = "DOWN"

----------------------------------------------------------------------------
(* RiskManager.update_drawdown.  Drawdowns are whole percents, rounded    *)
(* down.  Arithmetic on an undefined value gives an undefined value.      *)

(* (peak_value - current_pnl) / peak_value * 100 *)
DrawdownPct(current_pnl, peak_value) ==
    IF current_pnl = NaN THEN NaN
    ELSE ((peak_value - current_pnl) * 100) \div peak_value

(* Python's max(a, b): b when b > a, else a *)
PyMax(a, b) == IF GtF(b, a) THEN b ELSE a

(* a plausible slip: the maximum is overwritten *)
update_drawdown_overwrite(rk, current_pnl, peak_value) ==
    LET cur == IF GtF(peak_value, 0) THEN DrawdownPct(current_pnl, peak_value) ELSE 0
    IN [rk EXCEPT !.current_drawdown = cur, !.max_drawdown = cur]

update_drawdown(rk, current_pnl, peak_value) ==
    LET cur == IF GtF(peak_value, 0) THEN DrawdownPct(current_pnl, peak_value) ELSE 0
    IN [rk EXCEPT !.current_drawdown = cur,
                  !.max_drawdown = PyMax(rk.max_drawdown, cur)]

MaxPnl == 2       \* update_drawdown is called with current_pnl in -MaxPnl..MaxPnl
MaxPeak == 2      \* and peak_value in -1..MaxPeak, or with undefined values

UpdateDrawdown ==
    /\ pc = "ready"
    /\ \E current_pnl \in (-MaxPnl..MaxPnl) \cup {NaN},
          peak_value \in (-1..MaxPeak) \cup {NaN} :
         /\ risk' = update_drawdown(risk, current_pnl, peak_value)
         /\ last' = [op |-> "update_drawdown", current_pnl |-> current_pnl,
                     peak_value |-> peak_value, before |-> risk]
    /\ UNCHANGED <<config, df, strategy, bot, today, pc>>

InitRisk ==
    /\ config = MakeConfig("spot", TypicalIndicators)
    /\ df = NoWindow
    /\ strategy = StrategyInit
    /\ risk = RiskInit
    /\ bot = BotInit
    /\ today = 0
    /\ pc = "ready"
    /\ last = NoCall

NextRisk == UpdateDrawdown

SpecRisk == InitRisk /\ [][NextRisk]_vars

(* C3: max_drawdown never decreases; a call sets current_drawdown to      *)
(* (peak - current_pnl)/peak*100 when peak > 0 and to 0 when peak <= 0,   *)
(* and max_drawdown to the larger of its old value and current_drawdown.  *)
C3_DrawdownMonotone ==
    last.op = "update_drawdown" =>
        LET pnl == last.current_pnl
            peak == last.peak_value
            old == last.before.max_drawdown
        IN /\ risk.max_drawdown # NaN
           /\ risk.max_drawdown >= old
           /\ (peak # NaN /\ peak > 0 /\ pnl # NaN)
                 => risk.current_drawdown = ((peak - pnl) * 100) \div peak
           /\ (peak # NaN /\ peak <= 0) => risk.current_drawdown = 0
           /\ risk.current_drawdown # NaN
                 => risk.max_drawdown = Max({old, risk.current_drawdown})

(* a call with a smaller drawdown than the recorded maximum *)
C3_Witness ==
    /\ last.op = "update_drawdown"
    /\ last.before.max_drawdown > 0
    /\ risk.current_drawdown # NaN
    /\ risk.current_drawdown < last.before.max_drawdown
    /\ risk.max_drawdown = last.before.max_drawdown

----------------------------------------------------------------------------
(* RiskManager: daily limits, risk level, stop-loss and take-profit       *)

RiskLevel == {"LOW", "MEDIUM", "HIGH", "CRITICAL"}

(* A key the configuration dictionary does not hold: reading it raises    *)
(* KeyError.                                                              *)
Missing == -2000000

(* a plausible slip: the limit itself is still allowed *)
check_daily_limits_strict(rk, cfg, current_date) ==
    LET r == IF current_date # rk.last_reset_date
             THEN [rk EXCEPT !.daily_trades_count = 0, !.daily_pnl = 0,
                             !.last_reset_date = current_date]
             ELSE rk
        max_daily_trades == cfg.risk_management.max_daily_trades
    IN [ok |-> max_daily_trades # Missing /\ ~(r.daily_trades_count > max_daily_trades),
        risk |-> r]

(* check_daily_limits: the counters are reset on a new date, then the     *)
(* number of trades of the day is compared with the limit.  A missing     *)
(* limit raises after the reset, and the handler returns False.           *)
check_daily_limits(rk, cfg, current_date) ==
    LET r == IF current_date # rk.last_reset_date
             THEN [rk EXCEPT !.daily_trades_count = 0, !.daily_pnl = 0,
                             !.last_reset_date = current_date]
             ELSE rk
        max_daily_trades == cfg.risk_management.max_daily_trades
    IN [ok |-> max_daily_trades # Missing /\ ~(r.daily_trades_count >= max_daily_trades),
        risk |-> r]

(* n / d > tenths / 10, for a divisor that is not zero *)
RatioAbove(n, d, tenths) ==
    IF d > 0 THEN n * 10 > tenths * d ELSE n * 10 < tenths * d

(* a plausible slip: the drawdown tiers include their thresholds *)
assess_risk_level_inclusive(rk, cfg, current_pnl, position_size, volatility) ==
    LET max_position == cfg.risk_management.max_position_size
        max_trades == cfg.risk_management.max_daily_trades
        d == rk.current_drawdown
        drawdown_score == IF d # NaN /\ d >= 15 THEN 3
                          ELSE IF d # NaN /\ d >= 10 THEN 2
                          ELSE IF d # NaN /\ d >= 5 THEN 1
                          ELSE 0
        position_score == IF RatioAbove(Abs(position_size), max_position, 8) THEN 2
                          ELSE IF RatioAbove(Abs(position_size), max_position, 6) THEN 1
                          ELSE 0
        trades_score == IF RatioAbove(rk.daily_trades_count, max_trades, 8) THEN 1 ELSE 0
        risk_score == drawdown_score + position_score + trades_score
    IN IF max_position \in {0, Missing} \/ max_trades \in {0, Missing} THEN "MEDIUM"
       ELSE IF risk_score >= 5 THEN "CRITICAL"
       ELSE IF risk_score >= 3 THEN "HIGH"
       ELSE IF risk_score >= 1 THEN "MEDIUM"
       ELSE "LOW"

(* assess_risk_level: ratios above 0.8 and 0.6 are compared without       *)
(* dividing; a zero divisor or a missing limit raises, and the handler    *)
(* returns MEDIUM.                                                        *)
(* current_pnl and volatility are parameters the body never reads.        *)
assess_risk_level(rk, cfg, current_pnl, position_size, volatility) ==
    LET max_position == cfg.risk_management.max_position_size
        max_trades == cfg.risk_management.max_daily_trades
        drawdown_score == IF GtF(rk.current_drawdown, 15) THEN 3
                          ELSE IF GtF(rk.current_drawdown, 10) THEN 2
                          ELSE IF GtF(rk.current_drawdown, 5) THEN 1
                          ELSE 0
        position_score == IF RatioAbove(Abs(position_size), max_position, 8) THEN 2
                          ELSE IF RatioAbove(Abs(position_size), max_position, 6) THEN 1
                          ELSE 0
        trades_score == IF RatioAbove(rk.daily_trades_count, max_trades, 8) THEN 1 ELSE 0
        risk_score == drawdown_score + position_score + trades_score
    IN IF max_position \in {0, Missing} \/ max_trades \in {0, Missing} THEN "MEDIUM"
       ELSE IF risk_score >= 5 THEN "CRITICAL"
       ELSE IF risk_score >= 3 THEN "HIGH"
       ELSE IF risk_score >= 1 THEN "MEDIUM"
       ELSE "LOW"

should_reduce_position(risk_level) == risk_level \in {"HIGH", "CRITICAL"}

(* the daily loss limit written in should_stop_trading *)
DailyLossLimit == -1000

should_stop_trading(rk, risk_level) ==
    risk_level = "CRITICAL" \/ rk.daily_pnl < DailyLossLimit

(* record_trade: one more trade of the day, its pnl added to the day's *)
record_trade(rk, pnl) ==
    [rk EXCEPT !.daily_trades_count = @ + 1, !.daily_pnl = @ + pnl]

IsLongSide(side) == side \in {"buy", "long"}

(* calculate_stop_loss and calculate_take_profit, in hundredths of a      *)
(* price unit: entry_price * (100 -+ pct).  Method 'atr' calls the method *)
(* 'percentage'; an unsupported method raises inside the try block and    *)
(* the call returns 0.                                                    *)
StopLossMethods == {"percentage", "atr", "trailing"}
TakeProfitMethods == {"percentage", "risk_reward", "atr"}

percentage_stop_loss(cfg, entry_price, side) ==
    IF IsLongSide(side)
    THEN entry_price * (100 - cfg.risk_management.stop_loss_pct)
    ELSE entry_price * (100 + cfg.risk_management.stop_loss_pct)

calculate_stop_loss_atr_unsupported(cfg, entry_price, side, method) ==
    IF method = "percentage" THEN percentage_stop_loss(cfg, entry_price, side) ELSE 0

RECURSIVE calculate_stop_loss(_, _, _, _)
calculate_stop_loss(cfg, entry_price, side, method) ==
    IF method = "percentage" THEN percentage_stop_loss(cfg, entry_price, side)
    ELSE IF method = "atr" THEN calculate_stop_loss(cfg, entry_price, side, "percentage")
    ELSE 0

calculate_take_profit(cfg, entry_price, side, method) ==
    IF method = "percentage"
    THEN IF IsLongSide(side)
         THEN entry_price * (100 + cfg.risk_management.take_profit_pct)
         ELSE entry_price * (100 - cfg.risk_management.take_profit_pct)
    ELSE IF method = "risk_reward"
    THEN LET stop_loss == calculate_stop_loss(cfg, entry_price, side, "percentage")
         IN IF IsLongSide(side)
            THEN entry_price * 100 + (entry_price * 100 - stop_loss) * 2
            ELSE entry_price * 100 - (stop_loss - entry_price * 100) * 2
    ELSE 0

check_stop_loss_trigger(cfg, current_price, entry_price, side, position_size) ==
    IF position_size = 0 THEN FALSE
    ELSE LET stop_loss_price == calculate_stop_loss(cfg, entry_price, side, "percentage")
             triggered == IF IsLongSide(side)
                          THEN current_price * 100 <= stop_loss_price
                          ELSE current_price * 100 >= stop_loss_price
         IN triggered /\ entry_price # 0   \* the loss percentage divides by entry_price

(* a plausible slip: any price at or beyond the entry price takes profit *)
check_take_profit_trigger_at_entry(cfg, current_price, entry_price, side, position_size) ==
    IF position_size = 0 THEN FALSE
    ELSE LET triggered == IF IsLongSide(side)
                          THEN current_price >= entry_price
                          ELSE current_price <= entry_price
         IN triggered /\ entry_price # 0

check_take_profit_trigger(cfg, current_price, entry_price, side, position_size) ==
    IF position_size = 0 THEN FALSE
    ELSE LET take_profit_price == calculate_take_profit(cfg, entry_price, side, "percentage")
             triggered == IF IsLongSide(side)
                          THEN current_price * 100 >= take_profit_price
                          ELSE current_price * 100 <= take_profit_price
         IN triggered /\ entry_price # 0

----------------------------------------------------------------------------
(* TradingBot.  The operators take and return the three objects the bot   *)
(* works on, s.bot, s.strategy, s.risk, and s.trades, the trade records   *)
(* saved through the data manager.  An order placed with the gateway      *)
(* is "filled" (a fill record), "none" (an empty result) or "error" (the  *)
(* gateway raises).                                                       *)

OrderResults == {"filled", "none", "error"}

(* a plausible slip: a short is valued like a long *)
calculate_pnl_as_long(b, current_price) ==
    IF b.current_position = 0 \/ b.entry_price = 0 THEN 0
    ELSE (current_price - b.entry_price) * Abs(b.current_position)

calculate_pnl(b, current_price) ==
    IF b.current_position = 0 \/ b.entry_price = 0 THEN 0
    ELSE IF b.current_position > 0
    THEN (current_price - b.entry_price) * b.current_position
    ELSE (b.entry_price - current_price) * Abs(b.current_position)

(* _record_trade: the record's pnl is computed for stop-loss and          *)
(* take-profit trades only; the counters of the bot and of the risk       *)
(* manager are advanced.                                                  *)
bot_record_trade(s, signal, price, trade_type) ==
    LET pnl == IF trade_type \in {"stop_loss", "take_profit"}
               THEN calculate_pnl(s.bot, price) ELSE 0
    IN [s EXCEPT !.trades = Append(@, [signal_type |-> signal, pnl |-> pnl]),
                 !.bot.total_trades = @ + 1,
                 !.bot.successful_trades = IF pnl > 0 THEN @ + 1 ELSE @,
                 !.risk = record_trade(s.risk, pnl)]

(* the branches of _execute_trade that call place_market_order *)
places_order(s, signal) ==
    LET pos == s.bot.current_position IN
    \/ signal = "BUY" /\ pos <= 0
    \/ signal = "SELL" /\ pos > 0
    \/ signal = "LONG" /\ pos <= 0
    \/ signal = "SHORT" /\ pos >= 0
    \/ signal \in {"CLOSE_LONG", "CLOSE_SHORT"} /\ pos # 0

(* _execute_trade.  A failing get_balance or place_market_order raises    *)
(* before anything is written; the handler logs it.                       *)
execute_trade(s, cfg, signal, current_price, balance_ok, order) ==
    LET trade_amount == cfg.trade_amount
        pos == s.bot.current_position
        filled == order = "filled"
    IN
    IF ~balance_ok THEN s
    ELSE IF signal = "BUY" /\ pos <= 0 THEN
        IF trade_amount <= 0 \/ ~filled THEN s
        ELSE bot_record_trade(
                [s EXCEPT !.bot.current_position = @ + trade_amount,
                          !.bot.entry_price = current_price,
                          !.strategy = update_position(@, signal, trade_amount, current_price)],
                signal, current_price, "normal")
    ELSE IF signal = "SELL" /\ pos > 0 THEN
        LET sell_amount == IF trade_amount <= pos THEN trade_amount ELSE pos IN
        IF sell_amount <= 0 \/ ~filled THEN s
        ELSE bot_record_trade(
                [s EXCEPT !.bot.current_position = @ - sell_amount,
                          !.bot.entry_price = IF pos - sell_amount <= 0 THEN 0 ELSE @,
                          !.strategy = update_position(@, signal, sell_amount, current_price)],
                signal, current_price, "normal")
    ELSE IF signal = "LONG" /\ pos <= 0 THEN
        IF trade_amount <= 0 \/ ~filled THEN s
        ELSE bot_record_trade(
                [s EXCEPT !.bot.current_position = trade_amount,
                          !.bot.entry_price = current_price,
                          !.strategy = update_position(@, signal, trade_amount, current_price)],
                signal, current_price, "normal")
    ELSE IF signal = "SHORT" /\ pos >= 0 THEN
        IF trade_amount <= 0 \/ ~filled THEN s
        ELSE bot_record_trade(
                [s EXCEPT !.bot.current_position = -trade_amount,
                          !.bot.entry_price = current_price,
                          !.strategy = update_position(@, signal, trade_amount, current_price)],
                signal, current_price, "normal")
    ELSE IF signal \in {"CLOSE_LONG", "CLOSE_SHORT"} /\ pos # 0 THEN
        IF ~filled THEN s
        ELSE bot_record_trade(
                [s EXCEPT !.bot.total_pnl = @ + calculate_pnl(s.bot, current_price),
                          !.bot.current_position = 0,
                          !.bot.entry_price = 0,
                          !.strategy = update_position(@, signal, 0, current_price)],
                signal, current_price, "normal")
    ELSE s

(* _execute_stop_loss and _execute_take_profit: the position is closed    *)
(* with a market order, the pnl is realized, the trade is recorded, the   *)
(* bot's position and entry price are zeroed.                             *)
(* a plausible slip: the entry price is left behind *)
execute_protective_close_keeps_entry(s, current_price, order, trade_type) ==
    IF s.bot.current_position = 0 \/ order # "filled" THEN s
    ELSE LET t == bot_record_trade(
                     [s EXCEPT !.bot.total_pnl = @ + calculate_pnl(s.bot, current_price)],
                     "SELL", current_price, trade_type)
         IN [t EXCEPT !.bot.current_position = 0]

execute_protective_close(s, current_price, order, trade_type) ==
    IF s.bot.current_position = 0 \/ order # "filled" THEN s
    ELSE LET t == bot_record_trade(
                     [s EXCEPT !.bot.total_pnl = @ + calculate_pnl(s.bot, current_price)],
                     "SELL", current_price, trade_type)
         IN [t EXCEPT !.bot.current_position = 0, !.bot.entry_price = 0]

execute_stop_loss(s, current_price, order) ==
    execute_protective_close(s, current_price, order, "stop_loss")

execute_take_profit(s, current_price, order) ==
    execute_protective_close(s, current_price, order, "take_profit")

(* _check_stop_conditions *)
check_stop_conditions(s, cfg, current_price, order) ==
    LET b == s.bot
        side == IF b.current_position > 0 THEN "buy" ELSE "sell"
    IN
    IF b.current_position = 0 \/ b.entry_price = 0 THEN s
    ELSE IF check_stop_loss_trigger(cfg, current_price, b.entry_price, side, b.current_position)
    THEN execute_stop_loss(s, current_price, order)
    ELSE IF check_take_profit_trigger(cfg, current_price, b.entry_price, side, b.current_position)
    THEN execute_take_profit(s, current_price, order)
    ELSE s

(* the branches of _check_stop_conditions that place the closing order *)
places_closing_order(s, cfg, current_price) ==
    LET b == s.bot
        side == IF b.current_position > 0 THEN "buy" ELSE "sell"
    IN /\ b.current_position # 0 /\ b.entry_price # 0
       /\ \/ check_stop_loss_trigger(cfg, current_price, b.entry_price, side, b.current_position)
          \/ check_take_profit_trigger(cfg, current_price, b.entry_price, side, b.current_position)

(* the bot's position where a cycle stands *)
Held(s) == [position |-> s.bot.current_position, entry_price |-> s.bot.entry_price]

(* a plausible slip: the risk is computed on the counters as they were,   *)
(* and the date is looked at last                                         *)
risk_check_resets_last(s, cfg, current_date) ==
    LET d == check_daily_limits(s.risk, cfg, current_date)
        s1 == [s EXCEPT !.risk = d.risk]
        stale_ok == ~(s.risk.daily_trades_count >= cfg.risk_management.max_daily_trades)
        risk_level == assess_risk_level(s.risk, cfg, s.bot.total_pnl,
                                        s.bot.current_position, 0)
    IN
    IF ~stale_ok THEN [ok |-> FALSE, s |-> s1, level |-> "none"]
    ELSE IF should_stop_trading(s.risk, risk_level)
    THEN [ok |-> FALSE, s |-> [s1 EXCEPT !.bot.is_trading_enabled = FALSE],
          level |-> risk_level]
    ELSE [ok |-> TRUE, s |-> s1, level |-> risk_level]

(* _risk_check *)
risk_check(s, cfg, current_date) ==
    LET d == check_daily_limits(s.risk, cfg, current_date)
        s1 == [s EXCEPT !.risk = d.risk]
        risk_level == assess_risk_level(d.risk, cfg, s.bot.total_pnl,
                                        s.bot.current_position, 0)
    IN
    IF ~d.ok THEN [ok |-> FALSE, s |-> s1, level |-> "none"]
    ELSE IF should_stop_trading(d.risk, risk_level)
    THEN [ok |-> FALSE, s |-> [s1 EXCEPT !.bot.is_trading_enabled = FALSE],
          level |-> risk_level]
    ELSE [ok |-> TRUE, s |-> s1, level |-> risk_level]

(* a plausible slip: the stop conditions are checked in a vetoed cycle too *)
trading_cycle_stops_when_vetoed(s, cfg, current_date, fetch, klines, balance_ok, order, stop_order) ==
    IF ~s.bot.is_trading_enabled
    THEN [s |-> s, signal |-> "HOLD", stage |-> "disabled",
          level |-> "none", raised |-> FALSE,
          held |-> Held(s), closing |-> FALSE]
    ELSE IF fetch # "ok"
    THEN [s |-> s, signal |-> "HOLD", stage |-> "no_data",
          level |-> "none", raised |-> FALSE,
          held |-> Held(s), closing |-> FALSE]
    ELSE LET g == generate_signal(klines, s.strategy, cfg)
             signal == g.signal
             current_price == klines.latest.close
             s1 == [s EXCEPT !.strategy = g.strategy]
             rc == risk_check(s1, cfg, current_date)
             s2 == IF rc.ok /\ signal # "HOLD"
                   THEN execute_trade(rc.s, cfg, signal, current_price, balance_ok, order)
                   ELSE rc.s
         IN [s |-> check_stop_conditions(s2, cfg, current_price, stop_order),
             signal |-> signal,
             stage |-> IF rc.ok THEN "completed" ELSE "vetoed",
             level |-> rc.level,
             raised |-> /\ rc.ok /\ signal # "HOLD" /\ balance_ok
                        /\ places_order(rc.s, signal)
                        /\ (order = "error" \/ cfg.trade_amount <= 0),
             held |-> Held(s2),
             closing |-> places_closing_order(s2, cfg, current_price)]

(* a plausible slip: the signal is executed before the risk check *)
trading_cycle_trades_before_check(s, cfg, current_date, fetch, klines, balance_ok, order, stop_order) ==
    IF ~s.bot.is_trading_enabled
    THEN [s |-> s, signal |-> "HOLD", stage |-> "disabled",
          level |-> "none", raised |-> FALSE,
          held |-> Held(s), closing |-> FALSE]
    ELSE IF fetch # "ok"
    THEN [s |-> s, signal |-> "HOLD", stage |-> "no_data",
          level |-> "none", raised |-> FALSE,
          held |-> Held(s), closing |-> FALSE]
    ELSE LET g == generate_signal(klines, s.strategy, cfg)
             signal == g.signal
             current_price == klines.latest.close
             s1 == [s EXCEPT !.strategy = g.strategy]
             s2 == IF signal # "HOLD"
                   THEN execute_trade(s1, cfg, signal, current_price, balance_ok, order)
                   ELSE s1
             rc == risk_check(s2, cfg, current_date)
         IN
         IF ~rc.ok
         THEN [s |-> rc.s, signal |-> signal, stage |-> "vetoed",
               level |-> rc.level, raised |-> FALSE,
               held |-> Held(rc.s), closing |-> FALSE]
         ELSE [s |-> check_stop_conditions(rc.s, cfg, current_price, stop_order),
               signal |-> signal, stage |-> "completed", level |-> rc.level,
               raised |-> FALSE, held |-> Held(rc.s),
               closing |-> places_closing_order(rc.s, cfg, current_price)]

(* _trading_cycle.  fetch is "error" (fetching or enriching the candles   *)
(* raised), "empty" (an empty frame), or "ok" with the window klines; the *)
(* price is the latest close.  The result also tells the level the risk   *)
(* check computed, whether place_market_order raised while the signal     *)
(* was executed, the position held where the cycle ended or reached the   *)
(* stop check, and whether the stop check placed a closing order.         *)
trading_cycle(s, cfg, current_date, fetch, klines, balance_ok, order, stop_order) ==
    IF ~s.bot.is_trading_enabled
    THEN [s |-> s, signal |-> "HOLD", stage |-> "disabled",
          level |-> "none", raised |-> FALSE,
          held |-> Held(s), closing |-> FALSE]
    ELSE IF fetch # "ok"
    THEN [s |-> s, signal |-> "HOLD", stage |-> "no_data",
          level |-> "none", raised |-> FALSE,
          held |-> Held(s), closing |-> FALSE]
    ELSE LET g == generate_signal(klines, s.strategy, cfg)
             signal == g.signal
             current_price == klines.latest.close
             s1 == [s EXCEPT !.strategy = g.strategy]
             rc == risk_check(s1, cfg, current_date)
         IN
         IF ~rc.ok
         THEN [s |-> rc.s, signal |-> signal, stage |-> "vetoed",
               level |-> rc.level, raised |-> FALSE,
               held |-> Held(rc.s), closing |-> FALSE]
         ELSE LET s2 == IF signal # "HOLD"
                        THEN execute_trade(rc.s, cfg, signal, current_price, balance_ok, order)
                        ELSE rc.s
              IN [s |-> check_stop_conditions(s2, cfg, current_price, stop_order),
                  signal |-> signal, stage |-> "completed", level |-> rc.level,
                  raised |-> /\ signal # "HOLD" /\ balance_ok
                             /\ places_order(rc.s, signal)
                             /\ (order = "error" \/ cfg.trade_amount <= 0),
                  held |-> Held(s2),
                  closing |-> places_closing_order(s2, cfg, current_price)]

----------------------------------------------------------------------------
(* The running bot: start(), the main loop (_main_loop: the scheduled     *)
(* jobs, then the health check), the clock and stop().                    *)

MaxTrades == 3    \* trading cycles begin while total_trades < MaxTrades
MaxDays == 1      \* the date changes at most MaxDays times

(* closing prices seen by the bot: 10000, a fall of twenty percent, a     *)
(* rise of five percent                                                   *)
BotPrices == {8000, 10000, 10500}

(* exchange.get_klines(limit=200) *)
KlinesLimit == 200

(* Windows the exchange returns: a rising, a falling, a flat and an       *)
(* undefined market closing at price p.                                   *)
MarketWindow(market, p) ==
    LET latest == CASE market = "rising" ->
                         [RisingRow EXCEPT !.close = p, !.bb_middle = p - 1]
                    [] market = "falling" ->
                         [FallingRow EXCEPT !.close = p, !.bb_middle = p + 1]
                    [] market = "flat" ->
                         [RisingRow EXCEPT !.close = p, !.bb_middle = p,
                                           !.ema_fast = 2, !.macd = 2]
                    [] market = "mixed" ->
                         [RisingRow EXCEPT !.close = p, !.bb_middle = p,
                                           !.ema_fast = 1, !.adx_pos = 2]
                    [] OTHER -> [UndefinedRow EXCEPT !.close = p]
        prev == CASE market = "rising" -> [close |-> p - 1, macd_histogram |-> 2]
                  [] market = "falling" -> [close |-> p + 1, macd_histogram |-> 2]
                  [] OTHER -> [close |-> p, macd_histogram |-> 2]
    IN MakeWindow(KlinesLimit, latest, prev)

Markets == {"rising", "falling", "flat", "mixed", "undefined"}

Objects == [bot |-> bot, strategy |-> strategy, risk |-> risk, trades |-> << >>]

(* the position as the bot and as the strategy hold it *)
PositionsOf(s) ==
    [bot_position |-> s.bot.current_position, bot_entry_price |-> s.bot.entry_price,
     strategy_position |-> s.strategy.current_position]

(* What a cycle meets: the candles could not be fetched, or a window      *)
(* arrives and the gateway answers the balance request, the order of the  *)
(* signal and the closing order of a stop.                                *)
CycleInputs ==
    [fetch : {"error", "empty"}, market : {"flat"}, price : {10000},
     balance_ok : {TRUE}, order : {"filled"}, stop_order : {"filled"}]
    \cup
    [fetch : {"ok"}, market : Markets, price : BotPrices,
     balance_ok : {TRUE}, order : {"filled", "error"}, stop_order : {"filled", "error"}]
    \cup
    [fetch : {"ok"}, market : Markets, price : BotPrices,
     balance_ok : {FALSE}, order : {"error"}, stop_order : {"filled", "error"}]

(* start(): the bot runs and enters the main loop *)
Start ==
    /\ pc = "constructed"
    /\ bot' = [bot EXCEPT !.is_running = TRUE]
    /\ pc' = "run_pending"
    /\ last' = [op |-> "start"]
    /\ UNCHANGED <<config, df, strategy, risk, today>>

(* schedule.run_pending() runs the trading cycle *)
TradingCycle ==
    /\ pc = "run_pending"
    /\ bot.is_running
    /\ bot.total_trades < MaxTrades
    /\ \E inp \in CycleInputs :
       \E klines \in {MarketWindow(inp.market, inp.price)} :
       \E r \in {trading_cycle(Objects, config, today, inp.fetch, klines,
                               inp.balance_ok, inp.order, inp.stop_order)} :
            /\ bot' = r.s.bot
            /\ strategy' = r.s.strategy
            /\ risk' = r.s.risk
            /\ last' = [op |-> "trading_cycle", signal |-> r.signal, stage |-> r.stage,
                        level |-> r.level, raised |-> r.raised,
                        fetch |-> inp.fetch, klines |-> klines,
                        balance_ok |-> inp.balance_ok, order |-> inp.order,
                        trades |-> r.s.trades,
                        held |-> r.held, closing |-> r.closing,
                        before |-> PositionsOf(Objects)]
    /\ pc' = "health_check"
    /\ UNCHANGED <<config, df, today>>

(* schedule.run_pending() finds no trading cycle due *)
NoJobDue ==
    /\ pc = "run_pending"
    /\ bot.is_running
    /\ pc' = "health_check"
    /\ last' = [op |-> "none"]
    /\ UNCHANGED <<config, df, strategy, risk, bot, today>>

(* _health_check: the exchange is reconnected; the market is always open, *)
(* so trading is enabled; a failing reconnection leaves the flag alone.   *)
HealthCheck ==
    /\ pc = "health_check"
    /\ \E reconnected \in BOOLEAN :
         bot' = IF reconnected THEN [bot EXCEPT !.is_trading_enabled = TRUE] ELSE bot
    /\ pc' = "run_pending"
    /\ last' = [op |-> "health_check", enabled_before |-> bot.is_trading_enabled]
    /\ UNCHANGED <<config, df, strategy, risk, today>>

(* midnight passes on the engine's clock *)
NewDay ==
    /\ pc \in {"run_pending", "health_check"}
    /\ today < MaxDays
    /\ today' = today + 1
    /\ UNCHANGED <<config, df, strategy, risk, bot, pc, last>>

(* stop(), called by the signal handler between two steps of the loop *)
Stop ==
    /\ pc \in {"run_pending", "health_check"}
    /\ bot.is_running
    /\ bot' = [bot EXCEPT !.is_running = FALSE, !.is_trading_enabled = FALSE]
    /\ last' = [op |-> "stop"]
    /\ UNCHANGED <<config, df, strategy, risk, today, pc>>

(* the loop sees is_running = False and leaves; stop() runs in finally *)
LoopExit ==
    /\ pc = "run_pending"
    /\ ~bot.is_running
    /\ bot' = [bot EXCEPT !.is_running = FALSE, !.is_trading_enabled = FALSE]
    /\ pc' = "stopped"
    /\ last' = [op |-> "stop"]
    /\ UNCHANGED <<config, df, strategy, risk, today>>

Init ==
    /\ config \in {MakeConfig(tt, TypicalIndicators) : tt \in {"spot", "futures"}}
    /\ df = NoWindow
    /\ strategy = StrategyInit
    /\ risk = RiskInit
    /\ bot = BotInit
    /\ today = 0
    /\ pc = "constructed"
    /\ last = NoCall

Next ==
    \/ Start
    \/ TradingCycle
    \/ NoJobDue
    \/ HealthCheck
    \/ NewDay
    \/ Stop
    \/ LoopExit

Spec == Init /\ [][Next]_vars

(* C2: at the end of every trading cycle of the running bot, a flat       *)
(* position of the bot has entry price 0.                                 *)
C2_BotFlatHasNoEntryPrice ==
    last.op = "trading_cycle" =>
        (bot.current_position = 0 => bot.entry_price = 0)

(* a cycle in which a stop-loss or take-profit close flattened the bot *)
C2_Witness ==
    /\ last.op = "trading_cycle"
    /\ last.before.bot_position # 0
    /\ last.before.bot_entry_price # 0
    /\ last.signal = "HOLD"
    /\ bot.current_position = 0
    /\ bot.entry_price = 0

----------------------------------------------------------------------------
(* What the claims about a trading cycle speak of: the step of the main   *)
(* loop that runs _trading_cycle, and how far the cycle went.             *)

CycleStep == pc = "run_pending" /\ pc' = "health_check" /\ last'.op = "trading_cycle"

CycleDone == last.op = "trading_cycle"

BotPositionKept ==
    /\ bot'.current_position = bot.current_position
    /\ bot'.entry_price = bot.entry_price

StrategyPositionKept ==
    /\ strategy'.current_position = strategy.current_position
    /\ strategy'.entry_price = strategy.entry_price

(* C11: the risk check runs after the signal is produced and before any   *)
(* order or position update: a cycle the risk check vetoes has produced   *)
(* its signal, places no order and leaves the bot's position and entry    *)
(* price, the strategy's position and the trade counters as they were.    *)
C11_VetoBeforeOrders ==
    [][(CycleStep /\ last'.stage = "vetoed") =>
          /\ strategy'.last_signal = last'.signal
          /\ BotPositionKept
          /\ StrategyPositionKept
          /\ bot'.total_trades = bot.total_trades
          /\ bot'.successful_trades = bot.successful_trades
          /\ bot'.total_pnl = bot.total_pnl
          /\ risk'.daily_trades_count = risk.daily_trades_count]_vars

(* a buy signal on a flat position is vetoed: the day's trades are used up *)
C11_Witness ==
    /\ CycleDone /\ last.stage = "vetoed"
    /\ last.signal \in {"BUY", "LONG"}
    /\ last.before.bot_position = 0
    /\ bot.current_position = 0
    /\ risk.daily_trades_count >= config.risk_management.max_daily_trades

(* C12: a gateway failure is atomic for the cycle: when                   *)
(* place_market_order raises while the signal is executed, the cycle ends *)
(* with no further order, and the bot's position and entry price, the     *)
(* strategy's position, daily_trades_count and daily_pnl are as before    *)
(* the cycle.                                                             *)
C12_GatewayFailureAtomic ==
    [][(CycleStep /\ last'.raised) =>
          /\ BotPositionKept
          /\ strategy'.current_position = strategy.current_position
          /\ bot'.total_trades = bot.total_trades
          /\ risk'.daily_trades_count = risk.daily_trades_count
          /\ risk'.daily_pnl = risk.daily_pnl]_vars

(* C13: the position is changed only by applying an approved signal that  *)
(* is not HOLD: a cycle whose signal is HOLD, or whose signal the risk    *)
(* check vetoed, ends with the position (quantity and entry price) it     *)
(* started with.                                                          *)
C13_PositionOnlyBySignalOrig ==
    [][(CycleStep /\ (last'.signal = "HOLD" \/ last'.stage = "vetoed")) =>
          BotPositionKept]_vars

(* a stop-loss or take-profit close: the bot goes flat *)
ProtectiveClose ==
    /\ bot.current_position # 0
    /\ bot'.current_position = 0 /\ bot'.entry_price = 0

(* C13, amended: a cycle whose signal the risk check vetoed ends with the *)
(* position it started with; a cycle whose signal is HOLD ends with the   *)
(* position it started with, or a stop-loss or take-profit close has      *)
(* taken the bot flat (quantity 0, entry price 0); the strategy's own     *)
(* position is as before in both.                                         *)
C13_PositionOnlyBySignal ==
    [][(CycleStep /\ (last'.signal = "HOLD" \/ last'.stage = "vetoed")) =>
          /\ StrategyPositionKept
          /\ last'.stage = "vetoed" => BotPositionKept
          /\ BotPositionKept \/ (last'.stage = "completed" /\ ProtectiveClose)]_vars

(* a HOLD cycle in which a protective close took the bot flat *)
C13_Witness ==
    /\ CycleDone /\ last.signal = "HOLD" /\ last.stage = "completed"
    /\ last.before.bot_position # 0
    /\ bot.current_position = 0 /\ bot.entry_price = 0
    /\ strategy.current_position = last.before.strategy_position

(* C16: in every trading cycle that computes the risk, the date is        *)
(* compared and the daily counters are reset (daily_trades_count and      *)
(* daily_pnl to 0, last_reset_date to the current date) before the risk   *)
(* level and the stop decision are computed, and a date change resets the *)
(* counters once: on a new date the cycle is judged on the reset          *)
(* counters and counts only its own trades, on the same date it adds to   *)
(* the day's count.                                                       *)
C16_ResetBeforeRiskComputation ==
    [][(CycleStep /\ last'.stage \in {"vetoed", "completed"}) =>
          LET trades == bot'.total_trades - bot.total_trades
              new_date == risk.last_reset_date # today
          IN /\ risk'.last_reset_date = today
             /\ risk'.daily_trades_count =
                    (IF new_date THEN 0 ELSE risk.daily_trades_count) + trades
             /\ trades = 0 =>
                    risk'.daily_pnl = (IF new_date THEN 0 ELSE risk.daily_pnl)
             /\ new_date =>
                    /\ last'.stage = "completed"
                    /\ bot'.is_trading_enabled
                    /\ last'.level = (IF bot.current_position = 0 THEN "LOW" ELSE "MEDIUM")]_vars

(* the day after the limit of trades was reached: the cycle completes and *)
(* the count starts again                                                 *)
C16_Witness ==
    /\ CycleDone /\ last.stage = "completed"
    /\ today = 1 /\ risk.last_reset_date = 1
    /\ bot.total_trades = config.risk_management.max_daily_trades
    /\ risk.daily_trades_count = 0

(* C22: in futures mode the bot's position never goes from long directly  *)
(* to short or from short directly to long within one cycle.              *)
C22_NoDirectionalFlip ==
    [][(CycleStep /\ config.trade_type = "futures") =>
          /\ ~(bot.current_position > 0 /\ bot'.current_position < 0)
          /\ ~(bot.current_position < 0 /\ bot'.current_position > 0)]_vars

(* the cycle's signal reached the gateway and its order was filled *)
SignalFilled ==
    /\ CycleStep /\ last'.stage = "completed"
    /\ last'.balance_ok /\ last'.order = "filled"
    /\ places_order(Objects, last'.signal)

(* C23: an entry signal BUY or LONG with the trade amount a at price p,   *)
(* applied to a position q <= 0, leaves q + a at entry price p, in the    *)
(* strategy's ledger and in the bot's own fields alike.                   *)
C23_EntryApplication ==
    [][(SignalFilled /\ last'.signal \in {"BUY", "LONG"}) =>
          /\ strategy'.current_position = strategy.current_position + config.trade_amount
          /\ strategy'.entry_price = last'.klines.latest.close
          /\ bot'.current_position = bot.current_position + config.trade_amount
          /\ bot'.entry_price = last'.klines.latest.close]_vars

(* what the code does: the strategy adds the amount, the bot adds it on   *)
(* BUY and assigns it on LONG                                             *)
C23_EntryAsCoded ==
    [][(SignalFilled /\ last'.signal \in {"BUY", "LONG"}) =>
          /\ strategy'.current_position = strategy.current_position + config.trade_amount
          /\ strategy'.entry_price = last'.klines.latest.close
          /\ bot'.current_position = IF last'.signal = "BUY"
                                     THEN bot.current_position + config.trade_amount
                                     ELSE config.trade_amount
          /\ bot'.entry_price = last'.klines.latest.close]_vars

(* a short replaced by a long in one cycle *)
C23_LongOverShort ==
    /\ CycleDone /\ last.signal = "LONG" /\ last.before.bot_position < 0
    /\ bot.current_position > 0

(* C24: a CLOSE_LONG or CLOSE_SHORT executed on a nonzero position adds   *)
(* to total_pnl (exit - entry) * quantity for a long and                  *)
(* (entry - exit) * |quantity| for a short, from the quantity and entry   *)
(* price held before the close, and leaves quantity and entry price 0.    *)
C24_CloseApplication ==
    [][(SignalFilled /\ last'.signal \in {"CLOSE_LONG", "CLOSE_SHORT"}) =>
          LET exit_price == last'.klines.latest.close
              realized == IF bot.current_position > 0
                          THEN (exit_price - bot.entry_price) * bot.current_position
                          ELSE (bot.entry_price - exit_price) * Abs(bot.current_position)
          IN /\ bot'.total_pnl = bot.total_pnl + realized
             /\ bot'.current_position = 0 /\ bot'.entry_price = 0
             /\ strategy'.current_position = 0 /\ strategy'.entry_price = 0]_vars

(* a short entered at 10000 and closed by CLOSE_SHORT at 10500: -500 *)
C24_Witness ==
    /\ CycleDone /\ last.signal = "CLOSE_SHORT" /\ last.order = "filled"
    /\ last.before.bot_position = -1 /\ last.before.bot_entry_price = 10000
    /\ last.klines.latest.close = 10500
    /\ bot.current_position = 0 /\ bot.total_pnl = -500

(* min(a, b) as _execute_trade takes it *)
PyMin(a, b) == IF b < a THEN b ELSE a

(* C25: in spot mode a filled SELL reduces the quantity by                *)
(* min(amount, quantity), and after every trading cycle the quantity held *)
(* by the bot and the quantity held by the strategy are not negative.     *)
C25_SpotExitReduction ==
    [][(CycleStep /\ config.trade_type = "spot") =>
          /\ bot'.current_position >= 0
          /\ strategy'.current_position >= 0
          /\ (SignalFilled /\ last'.signal = "SELL") =>
                /\ bot'.current_position = bot.current_position
                      - PyMin(config.trade_amount, bot.current_position)
                /\ strategy'.current_position = strategy.current_position
                      - PyMin(config.trade_amount, strategy.current_position)]_vars

C25_Witness ==
    /\ CycleDone /\ config.trade_type = "spot" /\ last.signal = "SELL"
    /\ last.stage = "completed" /\ last.order = "filled"
    /\ last.before.bot_position = 1 /\ last.before.strategy_position = 1
    /\ bot.current_position = 0 /\ strategy.current_position = 0

SpotSignals == {"BUY", "SELL", "HOLD"}
FuturesSignals == {"LONG", "SHORT", "CLOSE_LONG", "CLOSE_SHORT", "HOLD"}

(* the signal types written to the trade records of the last cycle *)
RecordedSignals == {last.trades[i].signal_type : i \in DOMAIN last.trades}

(* C26: with trade_type spot every signal returned by generate_signal and *)
(* every signal_type written to a trade record is BUY, SELL or HOLD; with *)
(* trade_type futures every one is LONG, SHORT, CLOSE_LONG, CLOSE_SHORT   *)
(* or HOLD.                                                               *)
C26_SignalFamilies ==
    CycleDone =>
      /\ config.trade_type = "spot"
            => last.signal \in SpotSignals /\ RecordedSignals \subseteq SpotSignals
      /\ config.trade_type = "futures"
            => last.signal \in FuturesSignals /\ RecordedSignals \subseteq FuturesSignals

(* what holds: the signals returned, and the records of the trades the    *)
(* signals made, stay in the family of the mode                           *)
C26_ReturnedSignalsInFamily ==
    CycleDone =>
      /\ config.trade_type = "spot" => last.signal \in SpotSignals
      /\ config.trade_type = "futures" => last.signal \in FuturesSignals
      /\ \A i \in DOMAIN last.trades :
            last.trades[i].signal_type \in {last.signal, "SELL"}

(* C31: the two copies of the position agree: at the end of every        *)
(* trading cycle the strategy's current_position equals the bot's         *)
(* current_position.                                                      *)
C31_PositionsAgree ==
    CycleDone => strategy.current_position = bot.current_position

(* what holds: the copies part when a stop-loss or take-profit close      *)
(* takes the bot flat and when the bot's LONG or SHORT replaces the       *)
(* opposite position; a cycle that starts with equal copies and does      *)
(* neither ends with equal copies                                         *)
C31_AgreeUnlessProtectiveOrFlip ==
    [][(CycleStep /\ strategy.current_position = bot.current_position
          /\ strategy'.current_position # bot'.current_position) =>
          \/ bot'.current_position = 0 /\ bot'.entry_price = 0
             /\ strategy'.current_position # 0
          \/ /\ last'.signal = "LONG" /\ bot.current_position < 0
             /\ bot'.current_position = config.trade_amount
          \/ /\ last'.signal = "SHORT" /\ bot.current_position > 0
             /\ bot'.current_position = -config.trade_amount]_vars

(* a stop-loss close in spot mode: the bot is flat, the strategy holds 1  *)
C31_StoppedOutStrategyHolds ==
    /\ CycleDone /\ config.trade_type = "spot"
    /\ last.before.bot_position = 1 /\ last.before.strategy_position = 1
    /\ bot.current_position = 0 /\ strategy.current_position = 1

(* the bot is flat while the strategy still holds a quantity: in spot     *)
(* mode, the state a stop-loss or take-profit close leaves                *)
AfterProtectiveClose ==
    /\ config.trade_type = "spot"
    /\ bot.current_position = 0 /\ strategy.current_position > 0

(* the window of the cycle meets the market conditions of BUY *)
BuyMarketConditions(w) ==
    ~TooShort(w, config.indicators) /\ w.len >= 2
    /\ SpotBuy(w, config.indicators, detect_trend(w, config.indicators), 0)

(* C32: re-entry after a protective close: in spot mode, after a          *)
(* stop-loss or take-profit close has brought the bot's position to 0, a  *)
(* cycle whose window satisfies all BUY market conditions, that passes    *)
(* the risk check and whose order the gateway accepts opens a new         *)
(* position.                                                              *)
C32_ReentryAfterProtectiveClose ==
    [][(CycleStep /\ AfterProtectiveClose
          /\ last'.fetch = "ok" /\ BuyMarketConditions(last'.klines)
          /\ last'.stage = "completed"
          /\ last'.balance_ok /\ last'.order = "filled") =>
          bot'.current_position > 0]_vars

(* what the bot does instead: once a protective close has left the bot    *)
(* flat and the strategy holding, no cycle returns BUY, places an order   *)
(* or changes either position                                             *)
C32_NeverBuysAgain ==
    [][(AfterProtectiveClose /\ pc' # pc) =>
          /\ AfterProtectiveClose'
          /\ bot'.total_trades = bot.total_trades
          /\ strategy'.current_position = strategy.current_position
          /\ last'.op = "trading_cycle" => last'.signal # "BUY"]_vars

(* a completed cycle on a rising market, the gateway ready, after a       *)
(* protective close: the signal is HOLD and the bot stays flat            *)
C32_RisingMarketIgnored ==
    /\ CycleDone /\ AfterProtectiveClose
    /\ last.fetch = "ok" /\ BuyMarketConditions(last.klines)
    /\ last.stage = "completed" /\ last.balance_ok /\ last.order = "filled"
    /\ last.before.bot_position = 0
    /\ last.signal = "HOLD"

(* the price of the last cycle is at or beyond the stop-loss level of the *)
(* position held at the stop check                                        *)
HeldAtStopLoss ==
    LET price == last.klines.latest.close
        pct == config.risk_management.stop_loss_pct
    IN /\ last.held.position # 0
       /\ IF last.held.position > 0
          THEN price * 100 <= last.held.entry_price * (100 - pct)
          ELSE price * 100 >= last.held.entry_price * (100 + pct)

(* C33: stop-loss is enforced in every cycle: in every trading cycle that *)
(* starts with trading enabled and receives candle data, if the bot holds *)
(* a nonzero position at the stop check and the price is at or beyond the *)
(* stop-loss level for its side, a closing order is placed in that cycle, *)
(* cycles the risk check vetoes included.                                 *)
C33_StopLossEveryCycle ==
    (CycleDone /\ last.stage \in {"vetoed", "completed"} /\ HeldAtStopLoss)
        => last.closing

(* what holds: a cycle that passes the risk check places the closing      *)
(* order; a cycle the risk check vetoes returns before the stop check,    *)
(* places none and keeps the position                                     *)
C33_StopLossInCompletedCycles ==
    (CycleDone /\ HeldAtStopLoss) =>
        /\ last.stage = "completed" => last.closing
        /\ last.stage = "vetoed" =>
              /\ ~last.closing
              /\ bot.current_position = last.held.position
              /\ bot.entry_price = last.held.entry_price

(* the daily trade limit is reached, the price is beyond the stop level,  *)
(* and the cycle leaves the position open                                 *)
C33_VetoedAtStopLoss ==
    /\ CycleDone /\ last.stage = "vetoed" /\ last.level = "none"
    /\ HeldAtStopLoss
    /\ bot.current_position # 0

(* _risk_check has just set is_trading_enabled to False because           *)
(* should_stop_trading returned true                                      *)
RiskSuspended ==
    /\ CycleDone /\ last.stage = "vetoed" /\ last.level # "none"
    /\ ~bot.is_trading_enabled

(* C34: risk suspension is sticky: once _risk_check has set               *)
(* is_trading_enabled to False because should_stop_trading returned true, *)
(* is_trading_enabled stays False in every later step of the main loop.   *)
C34_SuspensionSticky ==
    [][RiskSuspended => ~bot'.is_trading_enabled]_vars

(* what the bot does instead: the health check that follows the cycle in  *)
(* the same turn of the loop enables trading again, unless the            *)
(* reconnection fails; only stop() leaves trading disabled                *)
C34_HealthCheckEnables ==
    [][(pc = "health_check" /\ pc' = "run_pending") =>
          \/ bot'.is_trading_enabled
          \/ bot' = bot]_vars

(* the health check found trading disabled in a running bot and enabled   *)
(* it, the daily loss still beyond the limit                              *)
C34_EnabledAfterSuspension ==
    /\ last.op = "health_check" /\ ~last.enabled_before
    /\ bot.is_running /\ bot.is_trading_enabled
    /\ risk.daily_pnl < DailyLossLimit /\ risk.last_reset_date = today

(* C35: the daily trade cap is never exceeded: with stop_loss_pct > 0,    *)
(* take_profit_pct > 0, positive prices and max_daily_trades >= 1, in     *)
(* every reachable state of the bot daily_trades_count is at most         *)
(* max_daily_trades, and no cycle records both a signal trade and a       *)
(* stop-loss or take-profit trade.                                        *)
C35_DailyCapKept ==
    /\ risk.daily_trades_count <= config.risk_management.max_daily_trades
    /\ CycleDone => Len(last.trades) <= 1

(* the day's last allowed trade is a protective close: the count stands   *)
(* at the limit                                                           *)
C35_Witness ==
    /\ CycleDone /\ last.stage = "completed"
    /\ config.risk_management.stop_loss_pct > 0
    /\ config.risk_management.take_profit_pct > 0
    /\ config.risk_management.max_daily_trades >= 1
    /\ Len(last.trades) = 1 /\ last.closing /\ last.before.bot_position # 0
    /\ bot.current_position = 0
    /\ risk.daily_trades_count = config.risk_management.max_daily_trades

(* what a cycle adds to the day's pnl and to the bot's total pnl; a cycle *)
(* on a new date starts the day at 0                                      *)
DailyPnlChange ==
    risk'.daily_pnl - (IF risk.last_reset_date # today /\ last'.stage \in {"vetoed", "completed"}
                       THEN 0 ELSE risk.daily_pnl)

TotalPnlChange == bot'.total_pnl - bot.total_pnl

RECURSIVE RecordedPnl(_)
RecordedPnl(trades) ==
    IF trades = << >> THEN 0 ELSE Head(trades).pnl + RecordedPnl(Tail(trades))

(* C36: daily pnl tracks realized pnl: over every trading cycle of a day  *)
(* the change in RiskManager.daily_pnl equals the change in               *)
(* TradingBot.total_pnl: every close that realizes pnl (by CLOSE_LONG or  *)
(* CLOSE_SHORT signal, stop-loss or take-profit) is counted once in       *)
(* daily_pnl and in the pnl field of its trade record.                    *)
C36_DailyPnlTracksRealized ==
    [][CycleStep =>
          /\ DailyPnlChange = TotalPnlChange
          /\ RecordedPnl(last'.trades) = TotalPnlChange]_vars

(* what holds: the day's pnl and the records count the pnl of stop-loss   *)
(* and take-profit closes; the pnl realized by a CLOSE_LONG or            *)
(* CLOSE_SHORT signal is added to total_pnl only, its record says 0       *)
C36_OnlyProtectiveClosesCounted ==
    [][CycleStep =>
          LET closed_by_signal ==
                  \E i \in DOMAIN last'.trades :
                      last'.trades[i].signal_type \in {"CLOSE_LONG", "CLOSE_SHORT"}
          IN /\ DailyPnlChange = RecordedPnl(last'.trades)
             /\ ~closed_by_signal => DailyPnlChange = TotalPnlChange
             /\ closed_by_signal =>
                   /\ DailyPnlChange = 0
                   /\ TotalPnlChange = calculate_pnl(bot, last'.klines.latest.close)]_vars

(* a long closed at a loss by CLOSE_LONG: total_pnl falls, daily_pnl and  *)
(* the record do not                                                      *)
C36_SignalCloseUncounted ==
    /\ CycleDone /\ last.signal = "CLOSE_LONG" /\ last.before.bot_position > 0
    /\ bot.current_position = 0 /\ bot.total_pnl < 0
    /\ risk.daily_pnl = 0
    /\ Len(last.trades) = 1 /\ last.trades[1].pnl = 0

(* The running bot with its scheduling: the loop keeps turning, and the   *)
(* scheduler keeps running the trading cycle.                             *)
SpecLive == Spec /\ WF_vars(Next) /\ SF_vars(TradingCycle)

(* the risk check of the last cycle computed CRITICAL and disabled trading *)
CriticalSuspension ==
    CycleDone /\ last.level = "CRITICAL" /\ ~bot.is_trading_enabled

(* C20: the risk engine can force suspension in the running bot: in a bot *)
(* that is not stopped and keeps running its cycles a state is reached in *)
(* which _risk_check computes CRITICAL and disables trading.              *)
C20_CriticalSuspensionHappens ==
    []<>(pc = "run_pending") => <>CriticalSuspension

(* what the bot does instead: current_drawdown is never written, the      *)
(* score stays below 5, and the risk check never computes CRITICAL; it    *)
(* disables trading only for a daily loss beyond the limit                *)
C20_NeverCritical ==
    /\ risk.current_drawdown = 0 /\ risk.max_drawdown = 0
    /\ CycleDone => last.level # "CRITICAL"
    /\ (CycleDone /\ last.stage = "vetoed" /\ last.level # "none")
          => risk.daily_pnl < DailyLossLimit

C20_LossSuspension ==
    /\ CycleDone /\ last.stage = "vetoed" /\ last.level \in {"LOW", "MEDIUM", "HIGH"}
    /\ ~bot.is_trading_enabled

----------------------------------------------------------------------------
(* C14: the ledger rejects an exit signal on a flat position:             *)
(* update_position with SELL, CLOSE_LONG or CLOSE_SHORT while             *)
(* current_position = 0 leaves current_position and entry_price as they   *)
(* were, so that no negative quantity comes of it.                        *)
C14_FlatExitRejected ==
    (/\ last.op = "update_position"
     /\ last.signal_type \in {"SELL", "CLOSE_LONG", "CLOSE_SHORT"}
     /\ last.before.current_position = 0)
        => /\ strategy.current_position = 0
           /\ strategy.entry_price = last.before.entry_price

----------------------------------------------------------------------------
(* The decisions of the RiskManager applied to the states it can have     *)
(* reached: check_daily_limits, assess_risk_level,                        *)
(* should_reduce_position, should_stop_trading.                           *)

(* config['strategy']['risk_management'] with its limits, and a daily     *)
(* loss limit the way a configuration would give it                       *)
RiskSettings(max_daily_trades, max_position_size, daily_loss_limit) ==
    [stop_loss_pct |-> 10, take_profit_pct |-> 10,
     max_daily_trades |-> max_daily_trades,
     max_position_size |-> max_position_size,
     daily_loss_limit |-> daily_loss_limit]

(* the typical limits, the limits of scenarios D and E, and a tighter     *)
(* daily loss limit                                                       *)
ValidRiskSettings ==
    {RiskSettings(2, 1, -1000), RiskSettings(10, 20, -1000), RiskSettings(10, 20, -500)}

MakeRiskConfig(rm) ==
    [MakeConfig("spot", TypicalIndicators) EXCEPT !.risk_management = rm]

(* States of the manager: the trades and the pnl of the day as            *)
(* record_trade leaves them, the drawdown as update_drawdown leaves it    *)
(* (on each side of 5, 10 and 15 percent, negative, undefined), the date  *)
(* of the last reset.                                                     *)
RiskStates ==
    {r \in [daily_trades_count : {0, 1, 2, 8, 9, 10, 11},
            daily_pnl : {-1001, -1000, -600, 0},
            max_drawdown : {20},
            current_drawdown : {NaN, -50, 0, 5, 6, 10, 11, 12, 15, 16},
            last_reset_date : {0, 1}] :
        r.daily_trades_count = 0 => r.daily_pnl = 0}

(* position sizes on each side of 0.6 and 0.8 of the two position limits *)
PositionSizes == {-17, -1, 0, 1, 12, 13, 16, 17, 25}

CheckDailyLimits ==
    /\ pc = "ready"
    /\ LET r == check_daily_limits(risk, config, today) IN
         /\ risk' = r.risk
         /\ last' = [op |-> "check_daily_limits", ret |-> r.ok, before |-> risk]
    /\ pc' = "returned"
    /\ UNCHANGED <<config, df, strategy, bot, today>>

AssessRiskLevel ==
    /\ pc = "ready"
    /\ \E current_pnl \in {-5, 5}, position_size \in PositionSizes, volatility \in {0, 1} :
         last' = [op |-> "assess_risk_level",
                  ret |-> assess_risk_level(risk, config, current_pnl, position_size,
                                            volatility),
                  current_pnl |-> current_pnl, position_size |-> position_size,
                  volatility |-> volatility, before |-> risk]
    /\ pc' = "returned"
    /\ UNCHANGED <<config, df, strategy, risk, bot, today>>

ShouldReducePosition ==
    /\ pc = "ready"
    /\ \E risk_level \in RiskLevel :
         last' = [op |-> "should_reduce_position", ret |-> should_reduce_position(risk_level),
                  risk_level |-> risk_level, before |-> risk]
    /\ pc' = "returned"
    /\ UNCHANGED <<config, df, strategy, risk, bot, today>>

ShouldStopTrading ==
    /\ pc = "ready"
    /\ \E risk_level \in RiskLevel :
         last' = [op |-> "should_stop_trading",
                  ret |-> should_stop_trading(risk, risk_level),
                  risk_level |-> risk_level, before |-> risk]
    /\ pc' = "returned"
    /\ UNCHANGED <<config, df, strategy, risk, bot, today>>

InitRiskCalls ==
    /\ config \in {MakeRiskConfig(rm) : rm \in ValidRiskSettings}
    /\ df = NoWindow
    /\ strategy = StrategyInit
    /\ risk \in RiskStates
    /\ bot = BotInit
    /\ today \in {0, 1}
    /\ pc = "ready"
    /\ last = NoCall

NextRiskCalls ==
    \/ CheckDailyLimits
    \/ AssessRiskLevel
    \/ ShouldReducePosition
    \/ ShouldStopTrading

SpecRiskCalls == InitRiskCalls /\ [][NextRiskCalls]_vars

Limits == config.risk_management

(* C17: with daily_trades_count >= max_daily_trades at the moment of the   *)
(* call, check_daily_limits returns False whatever the other fields are,   *)
(* the date of the last reset included.                                    *)
C17_LimitReachedRefusedOrig ==
    (/\ Returned("check_daily_limits")
     /\ last.before.daily_trades_count >= Limits.max_daily_trades)
        => last.ret = FALSE

(* C17, amended: with daily_trades_count >= max_daily_trades and          *)
(* last_reset_date equal to the current date, check_daily_limits returns  *)
(* False whatever daily_pnl and the drawdowns are; when the current date  *)
(* differs from last_reset_date the counters are reset first and the call *)
(* returns True (max_daily_trades being positive).                        *)
C17_LimitReachedRefused ==
    Returned("check_daily_limits") =>
        /\ (/\ last.before.daily_trades_count >= Limits.max_daily_trades
            /\ last.before.last_reset_date = today)
              => (last.ret = FALSE /\ risk = last.before)
        /\ last.before.last_reset_date # today
              => /\ last.ret = TRUE
                 /\ risk.daily_trades_count = 0 /\ risk.daily_pnl = 0
                 /\ risk.last_reset_date = today

(* scenario D: the tenth trade of ten was made today *)
C17_Witness ==
    /\ Returned("check_daily_limits")
    /\ last.before.daily_trades_count = 10 /\ Limits.max_daily_trades = 10
    /\ last.before.last_reset_date = today
    /\ last.before.daily_pnl = 0
    /\ last.ret = FALSE

(* C18: the risk score is the drawdown tier (3 above 15, else 2 above 10, *)
(* else 1 above 5) plus the position tier (2 when |position| /            *)
(* max_position_size > 0.8, else 1 when > 0.6) plus 1 when                *)
(* daily_trades_count / max_daily_trades > 0.8; the level is CRITICAL     *)
(* from 5, HIGH from 3, MEDIUM from 1, LOW below; current_pnl and         *)
(* volatility change nothing.                                             *)
C18_DrawdownTier ==
    LET d == last.before.current_drawdown IN
    IF d = NaN THEN 0
    ELSE IF d > 15 THEN 3 ELSE IF d > 10 THEN 2 ELSE IF d > 5 THEN 1 ELSE 0

C18_PositionTier ==
    LET a == Abs(last.position_size) IN
    IF 5 * a > 4 * Limits.max_position_size THEN 2
    ELSE IF 5 * a > 3 * Limits.max_position_size THEN 1
    ELSE 0

C18_TradesTier ==
    IF 5 * last.before.daily_trades_count > 4 * Limits.max_daily_trades THEN 1 ELSE 0

C18_Score == C18_DrawdownTier + C18_PositionTier + C18_TradesTier

C18_RiskScoring ==
    Returned("assess_risk_level") =>
        last.ret = IF C18_Score >= 5 THEN "CRITICAL"
                   ELSE IF C18_Score >= 3 THEN "HIGH"
                   ELSE IF C18_Score >= 1 THEN "MEDIUM"
                   ELSE "LOW"

(* scenario E: a drawdown of 12 percent, 17 of 20 units held, 9 of 10     *)
(* trades made: 2 + 2 + 1 = 5, CRITICAL                                   *)
C18_Witness ==
    /\ Returned("assess_risk_level")
    /\ last.before.current_drawdown = 12
    /\ last.position_size = 17 /\ Limits.max_position_size = 20
    /\ last.before.daily_trades_count = 9 /\ Limits.max_daily_trades = 10
    /\ last.ret = "CRITICAL"

(* C19: should_reduce_position is true exactly for HIGH and CRITICAL;     *)
(* should_stop_trading is true exactly when the level is CRITICAL or      *)
(* daily_pnl is below the configured daily loss limit.                    *)
C19_ReduceExactly ==
    Returned("should_reduce_position") =>
        (last.ret <=> last.risk_level \in {"HIGH", "CRITICAL"})

C19_StopAtFixedLimit ==
    Returned("should_stop_trading") =>
        (last.ret <=> (last.risk_level = "CRITICAL" \/ last.before.daily_pnl < -1000))

C19_DerivedActions ==
    /\ C19_ReduceExactly
    /\ Returned("should_stop_trading") =>
          (last.ret <=> (\/ last.risk_level = "CRITICAL"
                         \/ last.before.daily_pnl < Limits.daily_loss_limit))

----------------------------------------------------------------------------
(* Construction of the strategy and of the risk manager from a            *)
(* configuration, and the first calls on them.                            *)

(* limits a configuration should not have: no room for a position, no     *)
(* trade a day, no daily limit at all                                     *)
InvalidRiskSettings ==
    {RiskSettings(2, 0, -1000), RiskSettings(0, 1, -1000), RiskSettings(Missing, 1, -1000)}

(* TrendFollowingStrategy.__init__ and RiskManager.__init__: the sections *)
(* of the configuration are stored and the state is zeroed; no value is   *)
(* read or checked.                                                       *)
Construct ==
    /\ pc = "unbuilt"
    /\ strategy' = StrategyInit
    /\ risk' = [RiskInit EXCEPT !.last_reset_date = today]
    /\ pc' = "ready"
    /\ last' = [op |-> "construct"]
    /\ UNCHANGED <<config, df, bot, today>>

InitConstruct ==
    /\ config \in {MakeRiskConfig(rm) : rm \in ValidRiskSettings \cup InvalidRiskSettings}
    /\ df = NoWindow
    /\ strategy = StrategyInit
    /\ risk = RiskInit
    /\ bot = BotInit
    /\ today \in {0, 1}
    /\ pc = "unbuilt"
    /\ last = NoCall

NextConstruct ==
    \/ Construct
    \/ CheckDailyLimits
    \/ AssessRiskLevel

SpecConstruct == InitConstruct /\ [][NextConstruct]_vars

ValidLimits ==
    /\ Limits.max_daily_trades # Missing /\ Limits.max_daily_trades > 0
    /\ Limits.max_position_size # Missing /\ Limits.max_position_size > 0

(* C15: an invalid configuration is fatal at construction: with a missing *)
(* or out-of-range limit the objects are not built, so no                 *)
(* check_daily_limits or assess_risk_level call runs with it and          *)
(* substitutes a default result.                                          *)
C15_InvalidConfigFatal ==
    (Returned("check_daily_limits") \/ Returned("assess_risk_level")) => ValidLimits

----------------------------------------------------------------------------
(* The stop-loss and take-profit calculations of the RiskManager called   *)
(* with prices on each side of the levels, an entry price of 0 included.  *)

StopSettings ==
    {[TypicalRisk EXCEPT !.stop_loss_pct = sl, !.take_profit_pct = tp] :
        sl \in {5, 10}, tp \in {10, 20}}

EntryPrices == {0, 100, 200}

(* the levels of the entry prices under the settings, and their neighbours *)
CurrentPrices ==
    {0, 80, 89, 90, 91, 95, 100, 105, 109, 110, 111, 120, 160, 180, 190, 200, 210, 220, 240}

Sides == {"buy", "long", "sell", "short"}

HeldSizes == {-2, 0, 2}

CalculateStopLoss ==
    /\ pc = "ready"
    /\ \E entry_price \in EntryPrices, side \in Sides, method \in StopLossMethods :
         last' = [op |-> "calculate_stop_loss",
                  ret |-> calculate_stop_loss(config, entry_price, side, method),
                  entry_price |-> entry_price, side |-> side, method |-> method]
    /\ pc' = "returned"
    /\ UNCHANGED <<config, df, strategy, risk, bot, today>>

CalculateTakeProfit ==
    /\ pc = "ready"
    /\ \E entry_price \in EntryPrices, side \in Sides, method \in TakeProfitMethods :
         last' = [op |-> "calculate_take_profit",
                  ret |-> calculate_take_profit(config, entry_price, side, method),
                  entry_price |-> entry_price, side |-> side, method |-> method]
    /\ pc' = "returned"
    /\ UNCHANGED <<config, df, strategy, risk, bot, today>>

CheckStopLossTrigger ==
    /\ pc = "ready"
    /\ \E current_price \in CurrentPrices, entry_price \in EntryPrices, side \in Sides,
          position_size \in HeldSizes :
         last' = [op |-> "check_stop_loss_trigger",
                  ret |-> check_stop_loss_trigger(config, current_price, entry_price, side,
                                                  position_size),
                  current_price |-> current_price, entry_price |-> entry_price,
                  side |-> side, position_size |-> position_size]
    /\ pc' = "returned"
    /\ UNCHANGED <<config, df, strategy, risk, bot, today>>

CheckTakeProfitTrigger ==
    /\ pc = "ready"
    /\ \E current_price \in CurrentPrices, entry_price \in EntryPrices, side \in Sides,
          position_size \in HeldSizes :
         last' = [op |-> "check_take_profit_trigger",
                  ret |-> check_take_profit_trigger(config, current_price, entry_price, side,
                                                    position_size),
                  current_price |-> current_price, entry_price |-> entry_price,
                  side |-> side, position_size |-> position_size]
    /\ pc' = "returned"
    /\ UNCHANGED <<config, df, strategy, risk, bot, today>>

InitStops ==
    /\ config \in {MakeRiskConfig(rm) : rm \in StopSettings}
    /\ df = NoWindow
    /\ strategy = StrategyInit
    /\ risk = RiskInit
    /\ bot = BotInit
    /\ today = 0
    /\ pc = "ready"
    /\ last = NoCall

NextStops ==
    \/ CalculateStopLoss
    \/ CalculateTakeProfit
    \/ CheckStopLossTrigger
    \/ CheckTakeProfitTrigger

SpecStops == InitStops /\ [][NextStops]_vars

(* the price is at or beyond the stop-loss level entry*(1 -+ pct/100) *)
AtStopLoss ==
    IF IsLongSide(last.side)
    THEN last.current_price * 100 <= last.entry_price * (100 - Limits.stop_loss_pct)
    ELSE last.current_price * 100 >= last.entry_price * (100 + Limits.stop_loss_pct)

(* the price is at or beyond the take-profit level entry*(1 +- pct/100) *)
AtTakeProfit ==
    IF IsLongSide(last.side)
    THEN last.current_price * 100 >= last.entry_price * (100 + Limits.take_profit_pct)
    ELSE last.current_price * 100 <= last.entry_price * (100 - Limits.take_profit_pct)

(* C21: check_stop_loss_trigger is true iff the position is not 0 and the *)
(* price is at or beyond entry*(1 -+ stop_loss_pct/100) on the losing     *)
(* side, check_take_profit_trigger iff it is at or beyond                 *)
(* entry*(1 +- take_profit_pct/100) on the winning side; a price exactly  *)
(* at the level triggers.                                                 *)
C21_TriggersNonStrict ==
    /\ Returned("check_stop_loss_trigger")
          => (Ret <=> (last.position_size # 0 /\ AtStopLoss))
    /\ Returned("check_take_profit_trigger")
          => (Ret <=> (last.position_size # 0 /\ AtTakeProfit))

(* what the code does: the same for every entry price but 0; with an      *)
(* entry price of 0 both checks return false                              *)
C21_TriggersAtNonzeroEntry ==
    /\ Returned("check_stop_loss_trigger")
          => (Ret <=> (last.position_size # 0 /\ last.entry_price # 0 /\ AtStopLoss))
    /\ Returned("check_take_profit_trigger")
          => (Ret <=> (last.position_size # 0 /\ last.entry_price # 0 /\ AtTakeProfit))

C21_ExactlyAtLevel ==
    /\ Returned("check_take_profit_trigger") /\ Ret
    /\ last.side = "sell" /\ last.entry_price = 200 /\ last.current_price = 160

(* C29: calculate_stop_loss with method 'atr' returns the value of method *)
(* 'percentage', entry*(1 - pct/100) for buy and long, entry*(1 + pct/100)*)
(* for sell and short, and any other method name returns 0.               *)
C29_AtrFallback ==
    Returned("calculate_stop_loss") =>
        /\ last.method = "atr" =>
              /\ Ret = calculate_stop_loss(config, last.entry_price, last.side, "percentage")
              /\ Ret = IF IsLongSide(last.side)
                       THEN last.entry_price * (100 - Limits.stop_loss_pct)
                       ELSE last.entry_price * (100 + Limits.stop_loss_pct)
        /\ last.method \notin {"percentage", "atr"} => Ret = 0

C29_Witness ==
    /\ Returned("calculate_stop_loss") /\ last.method = "atr"
    /\ last.side = "short" /\ last.entry_price = 100 /\ Limits.stop_loss_pct = 5
    /\ Ret = 10500

----------------------------------------------------------------------------
(* The main loop at the grain of the steps of its jobs.  _main_loop calls *)
(* schedule.run_pending(), which calls each due job and returns when the  *)
(* job has returned, then _health_check(), then sleeps.  pc is the place  *)
(* of the loop; last holds the jobs due, the jobs in progress and the     *)
(* step and signal of the trading cycle in progress.                      *)

Jobs == {"trading_cycle", "daily_report", "weekly_cleanup"}

(* a plausible slip: each job is started on a thread of its own and the   *)
(* loop goes on                                                           *)
run_job_on_thread(job) == "run_pending"

(* where the loop is once a due job has been started: in the call *)
run_job(job) == "in_job"

Schedule(due, running, step, signal) ==
    [last EXCEPT !.due = due, !.running = running, !.step = step,
                 !.signal = signal]

(* the job returns; the loop, if it was in the call, looks for the next *)
JobReturns(job) ==
    /\ last' = Schedule(last.due, last.running \ {job},
                        IF job = "trading_cycle" THEN "none" ELSE last.step,
                        IF job = "trading_cycle" THEN "HOLD" ELSE last.signal)
    /\ pc' = IF pc = "in_job" THEN "run_pending" ELSE pc

JobGoesOn(step, signal) ==
    /\ last' = Schedule(last.due, last.running, step, signal)
    /\ pc' = pc

(* schedule.run_pending() collects the jobs that are due *)
RunPending ==
    /\ pc = "sleep"
    /\ \E due \in SUBSET Jobs :
         /\ "trading_cycle" \in due => bot.total_trades < MaxTrades
         /\ last' = Schedule(due, last.running, last.step, last.signal)
    /\ pc' = "run_pending"
    /\ UNCHANGED <<config, df, strategy, risk, bot, today>>

(* it calls the next due job *)
RunJob ==
    /\ pc = "run_pending"
    /\ \E job \in last.due :
         /\ job \notin last.running
         /\ last' = Schedule(last.due \ {job}, last.running \cup {job},
                             IF job = "trading_cycle" THEN "get_klines" ELSE last.step,
                             last.signal)
         /\ pc' = run_job(job)
    /\ UNCHANGED <<config, df, strategy, risk, bot, today>>

(* _trading_cycle, steps 1 to 4: the window is fetched and the signal     *)
(* generated                                                              *)
CycleGenerateSignal ==
    /\ "trading_cycle" \in last.running /\ last.step = "get_klines"
    /\ IF ~bot.is_trading_enabled
       THEN JobReturns("trading_cycle") /\ UNCHANGED <<df, strategy>>
       ELSE \E market \in {"rising", "falling", "mixed"} :
              LET klines == MarketWindow(market, 10000)
                  g == generate_signal(klines, strategy, config)
              IN /\ df' = klines
                 /\ strategy' = g.strategy
                 /\ JobGoesOn("risk_check", g.signal)
    /\ UNCHANGED <<config, risk, bot, today>>

(* step 6: the risk check *)
CycleRiskCheck ==
    /\ "trading_cycle" \in last.running /\ last.step = "risk_check"
    /\ LET rc == risk_check(Objects, config, today) IN
         /\ bot' = rc.s.bot
         /\ risk' = rc.s.risk
         /\ IF ~rc.ok THEN JobReturns("trading_cycle")
            ELSE JobGoesOn(IF last.signal # "HOLD" THEN "execute_trade"
                           ELSE "check_stop_conditions", last.signal)
    /\ UNCHANGED <<config, df, strategy, today>>

(* step 7: the signal is executed *)
CycleExecuteTrade ==
    /\ "trading_cycle" \in last.running /\ last.step = "execute_trade"
    /\ \E order \in {"filled", "error"} :
         LET t == execute_trade(Objects, config, last.signal, df.latest.close, TRUE, order)
         IN /\ bot' = t.bot
            /\ strategy' = t.strategy
            /\ risk' = t.risk
    /\ JobGoesOn("check_stop_conditions", last.signal)
    /\ UNCHANGED <<config, df, today>>

(* step 8: the stop-loss and take-profit conditions *)
CycleCheckStopConditions ==
    /\ "trading_cycle" \in last.running /\ last.step = "check_stop_conditions"
    /\ LET t == check_stop_conditions(Objects, config, df.latest.close, "filled")
       IN /\ bot' = t.bot
          /\ risk' = t.risk
    /\ JobReturns("trading_cycle")
    /\ UNCHANGED <<config, df, strategy, today>>

(* _daily_report and _weekly_cleanup read and prune the stored data *)
ReportJob ==
    /\ \E job \in last.running \ {"trading_cycle"} : JobReturns(job)
    /\ UNCHANGED <<config, df, strategy, risk, bot, today>>

(* run_pending has returned: _health_check, then time.sleep(1) *)
LoopHealthCheck ==
    /\ pc = "run_pending"
    /\ last.due \subseteq last.running
    /\ \E reconnected \in BOOLEAN :
         bot' = IF reconnected THEN [bot EXCEPT !.is_trading_enabled = TRUE] ELSE bot
    /\ pc' = "sleep"
    /\ last' = Schedule({}, last.running, last.step, last.signal)
    /\ UNCHANGED <<config, df, strategy, risk, today>>

InitSchedule ==
    /\ config \in {MakeConfig(tt, TypicalIndicators) : tt \in {"spot", "futures"}}
    /\ df = NoWindow
    /\ strategy = StrategyInit
    /\ risk = RiskInit
    /\ bot = [BotInit EXCEPT !.is_running = TRUE]
    /\ today = 0
    /\ pc = "sleep"
    /\ last = [op |-> "main_loop", due |-> {}, running |-> {}, step |-> "none",
               signal |-> "HOLD"]

NextSchedule ==
    \/ RunPending
    \/ RunJob
    \/ CycleGenerateSignal
    \/ CycleRiskCheck
    \/ CycleExecuteTrade
    \/ CycleCheckStopConditions
    \/ ReportJob
    \/ LoopHealthCheck

SpecSchedule == InitSchedule /\ [][NextSchedule]_vars

(* C28: at most one job is in progress; a job begins only when none is in *)
(* progress; the health check runs only when none is in progress; the     *)
(* position and risk state change only in a step of the one trading cycle *)
(* in progress or in the health check.                                    *)
C28_CyclesSerialized ==
    [][/\ Cardinality(last'.running) <= 1
       /\ last'.running \ last.running # {} => last.running = {}
       /\ (pc = "run_pending" /\ pc' = "sleep") => last.running = {}
       /\ <<bot', strategy', risk'>> # <<bot, strategy, risk>>
             => \/ last.running = {"trading_cycle"} /\ pc = "in_job" /\ pc' # "sleep"
                \/ last.running = {} /\ pc = "run_pending" /\ pc' = "sleep"]_vars

(* the trading cycle is about to place its order while the daily report   *)
(* and the weekly cleanup are due and wait                                *)
C28_Witness ==
    /\ pc = "in_job" /\ last.running = {"trading_cycle"}
    /\ last.step = "execute_trade" /\ last.signal = "SHORT"
    /\ last.due = {"daily_report", "weekly_cleanup"}
    /\ bot.current_position = 1

----------------------------------------------------------------------------
(* Shutdown.  start() installs _signal_handler for SIGINT and SIGTERM;    *)
(* the handler runs stop() on the main thread between two instructions    *)
(* of whatever the loop is doing, and the interrupted code then goes on.  *)
(* _main_loop tests is_running at the top of each turn and runs stop() in *)
(* its finally clause.  last also counts the signals delivered and the    *)
(* calls of _generate_final_report.                                       *)

MaxSignals == 1   \* the signals delivered in a run

(* stop(): both flags are cleared (the final report follows) *)
stop(b) == [b EXCEPT !.is_running = FALSE, !.is_trading_enabled = FALSE]

(* _signal_handler: stop(), wherever the loop stands *)
SignalHandler ==
    /\ pc \in {"sleep", "run_pending", "in_job"}
    /\ last.signals < MaxSignals
    /\ bot' = stop(bot)
    /\ last' = [last EXCEPT !.signals = @ + 1, !.final_reports = @ + 1]
    /\ UNCHANGED <<config, df, strategy, risk, today, pc>>

(* while self.is_running: the next turn of the loop *)
LoopTurn == bot.is_running /\ RunPending

(* the loop ends; finally: self.stop() *)
LoopLeaves ==
    /\ pc = "sleep"
    /\ ~bot.is_running
    /\ bot' = stop(bot)
    /\ pc' = "stopped"
    /\ last' = [last EXCEPT !.final_reports = @ + 1]
    /\ UNCHANGED <<config, df, strategy, risk, today>>

InitShutdown ==
    /\ config \in {MakeConfig(tt, TypicalIndicators) : tt \in {"spot", "futures"}}
    /\ df = NoWindow
    /\ strategy = StrategyInit
    /\ risk = RiskInit
    /\ bot = [BotInit EXCEPT !.is_running = TRUE]
    /\ today = 0
    /\ pc = "sleep"
    /\ last = [op |-> "main_loop", due |-> {}, running |-> {}, step |-> "none",
               signal |-> "HOLD", signals |-> 0, final_reports |-> 0]

NextShutdown ==
    \/ LoopTurn
    \/ RunJob
    \/ CycleGenerateSignal
    \/ CycleRiskCheck
    \/ CycleExecuteTrade
    \/ CycleCheckStopConditions
    \/ ReportJob
    \/ LoopHealthCheck
    \/ SignalHandler
    \/ LoopLeaves

SpecShutdown == InitShutdown /\ [][NextShutdown]_vars

(* the step places an order with the gateway: the signal's order in step  *)
(* 7, the closing order of a stop in step 8                               *)
OrderPlaced ==
    \/ /\ last.step = "execute_trade" /\ last'.step = "check_stop_conditions"
       /\ places_order(Objects, last.signal)
    \/ /\ last.step = "check_stop_conditions" /\ last'.step = "none"
       /\ places_closing_order(Objects, config, df.latest.close)

(* C37: no order after stop: once stop() has been invoked (is_running =   *)
(* False and is_trading_enabled = False) no order is placed with the      *)
(* gateway, even when the signal handler invokes stop() while a trading   *)
(* cycle is in progress, and the final report is generated exactly once   *)
(* per run.                                                               *)
C37_NoOrderAfterStop ==
    [][/\ ~bot.is_running => ~OrderPlaced
       /\ pc' = "stopped" => last'.final_reports = 1]_vars

(* what the bot does instead: a cycle past its enabled check goes on to   *)
(* its orders; the handler's stop() and the loop's stop() each generate   *)
(* the report; the health check of the interrupted turn enables trading   *)
(* again; no cycle passes its enabled check after the stop                *)
C37_StopLeavesCycleRunning ==
    [][/\ pc' = "stopped" => last'.final_reports = last'.signals + 1
       /\ (~bot.is_running /\ OrderPlaced) => last.signals > 0 /\ pc = "in_job"
       /\ (~bot.is_running /\ last.step = "get_klines" /\ last'.step = "risk_check")
             => FALSE]_vars

(* the bot has stopped after one signal: two final reports *)
C37_StoppedWithTwoReports ==
    /\ pc = "stopped" /\ last.signals = 1 /\ last.final_reports = 2
    /\ ~bot.is_running

----------------------------------------------------------------------------
(* calculate_indicators.  A frame maps the names of its columns to series *)
(* of equal length; df[col] = series adds or replaces a column.  The      *)
(* indicator classes of the ta library are outside the repository: each   *)
(* is taken as a rolling sum, over its window, of the series it is given, *)
(* undefined until the window is filled.  The lines written in the        *)
(* repository (band width, volume average and ratio, price change and its *)
(* average) are computed as written, ratios in hundredths.                *)

Inf == 1000000    \* the result of dividing a nonzero value by zero
VolumeSmaWindow == 20
PriceChangeSmaWindow == 5
MaxCalls == 2     \* calculate_indicators is called at most MaxCalls times on a frame

RawColumns == {"close", "high", "low", "volume"}

Undefined(x) == x \in {NaN, Inf}

RECURSIVE SumOf(_, _, _)
SumOf(series, from, to) ==
    IF from > to THEN 0 ELSE series[to] + SumOf(series, from, to - 1)

Rolling(series, window) ==
    [i \in 1..Len(series) |->
        IF i < window \/ \E j \in (i - window + 1)..i : Undefined(series[j])
        THEN NaN
        ELSE SumOf(series, i - window + 1, i)]

(* elementwise a - b, a + b and a / b of pandas: undefined operands give  *)
(* undefined results, a division by zero gives inf or, for 0 / 0, NaN     *)
Minus(a, b) ==
    [i \in 1..Len(a) |-> IF Undefined(a[i]) \/ Undefined(b[i]) THEN NaN ELSE a[i] - b[i]]

Over(a, b) ==
    [i \in 1..Len(a) |->
        IF Undefined(a[i]) \/ Undefined(b[i]) THEN NaN
        ELSE IF b[i] = 0 THEN (IF a[i] = 0 THEN NaN ELSE Inf)
        ELSE (a[i] * 100) \div b[i]]

(* series.rolling(window).mean() *)
RollingMean(series, window) ==
    LET sums == Rolling(series, window) IN
    [i \in 1..Len(series) |-> IF sums[i] = NaN THEN NaN ELSE sums[i] \div window]

(* series.pct_change() *)
PctChange(series) ==
    [i \in 1..Len(series) |->
        IF i = 1 THEN NaN
        ELSE Over(<<series[i] - series[i - 1]>>, <<series[i - 1]>>)[1]]

(* The columns are assigned one after another, each from the candle       *)
(* columns of the frame and from columns assigned before it in the same   *)
(* call; the frame returned is the frame given with the columns assigned  *)
(* added or replaced.                                                     *)
(* a plausible slip: the volume is normalized in place *)
calculate_indicators_volume_in_place(frame, ind) ==
    LET close == frame["close"]
        high == frame["high"]
        low == frame["low"]
        volume == frame["volume"]
        macd == Minus(Rolling(close, ind.macd_fast), Rolling(close, ind.macd_slow))
        macd_signal == Rolling(macd, ind.macd_signal)
        bb_upper == Rolling(high, ind.bb_period)
        bb_middle == Rolling(close, ind.bb_period)
        bb_lower == Rolling(low, ind.bb_period)
        volume_sma == RollingMean(volume, VolumeSmaWindow)
        price_change == PctChange(close)
    IN [ema_fast |-> Rolling(close, ind.ema_fast),
        ema_slow |-> Rolling(close, ind.ema_slow),
        macd |-> macd,
        macd_signal |-> macd_signal,
        macd_histogram |-> Minus(macd, macd_signal),
        adx |-> Rolling(Minus(high, low), ind.adx_period),
        adx_pos |-> Rolling(Minus(high, close), ind.adx_period),
        adx_neg |-> Rolling(Minus(close, low), ind.adx_period),
        bb_upper |-> bb_upper,
        bb_middle |-> bb_middle,
        bb_lower |-> bb_lower,
        bb_width |-> Over(Minus(bb_upper, bb_lower), bb_middle),
        rsi |-> Rolling(close, ind.rsi_period),
        volume_sma |-> volume_sma,
        volume |-> Over(volume, volume_sma),
        price_change |-> price_change,
        price_change_sma |-> RollingMean(price_change, PriceChangeSmaWindow)]
       @@ frame

calculate_indicators(frame, ind) ==
    LET close == frame["close"]
        high == frame["high"]
        low == frame["low"]
        volume == frame["volume"]
        macd == Minus(Rolling(close, ind.macd_fast), Rolling(close, ind.macd_slow))
        macd_signal == Rolling(macd, ind.macd_signal)
        bb_upper == Rolling(high, ind.bb_period)
        bb_middle == Rolling(close, ind.bb_period)
        bb_lower == Rolling(low, ind.bb_period)
        volume_sma == RollingMean(volume, VolumeSmaWindow)
        price_change == PctChange(close)
    IN [ema_fast |-> Rolling(close, ind.ema_fast),
        ema_slow |-> Rolling(close, ind.ema_slow),
        macd |-> macd,
        macd_signal |-> macd_signal,
        macd_histogram |-> Minus(macd, macd_signal),
        adx |-> Rolling(Minus(high, low), ind.adx_period),
        adx_pos |-> Rolling(Minus(high, close), ind.adx_period),
        adx_neg |-> Rolling(Minus(close, low), ind.adx_period),
        bb_upper |-> bb_upper,
        bb_middle |-> bb_middle,
        bb_lower |-> bb_lower,
        bb_width |-> Over(Minus(bb_upper, bb_lower), bb_middle),
        rsi |-> Rolling(close, ind.rsi_period),
        volume_sma |-> volume_sma,
        volume_ratio |-> Over(volume, volume_sma),
        price_change |-> price_change,
        price_change_sma |-> RollingMean(price_change, PriceChangeSmaWindow)]
       @@ frame

(* Candle windows: shorter and longer than each lookback; rising,         *)
(* falling, flat and alternating closes; constant, absent, growing and    *)
(* bursting volumes; narrow and wide candles.                             *)
FrameLens == {1, 5, 20, 27, 35}

Candles(n, closes, volumes, spread) ==
    LET close == [i \in 1..n |->
                    CASE closes = "rising" -> 100 + i
                      [] closes = "falling" -> 200 - i
                      [] closes = "flat" -> 100
                      [] OTHER -> 100 + 3 * (i % 2)]
        volume == [i \in 1..n |->
                    CASE volumes = "constant" -> 10
                      [] volumes = "absent" -> 0
                      [] volumes = "growing" -> i
                      [] OTHER -> IF i % 3 = 0 THEN 30 ELSE 10]
    IN [c \in RawColumns |->
          CASE c = "close" -> close
            [] c = "high" -> [i \in 1..n |-> close[i] + spread]
            [] c = "low" -> [i \in 1..n |-> close[i] - spread]
            [] OTHER -> volume]

CandleFrames ==
    {Candles(n, closes, volumes, spread) :
        n \in FrameLens, closes \in {"rising", "falling", "flat", "alternating"},
        volumes \in {"constant", "absent", "growing", "bursting"}, spread \in {1, 2}}

CalculateIndicators ==
    /\ pc \in {"ready", "returned"}
    /\ last.calls < MaxCalls
    /\ df' = calculate_indicators(df, config.indicators)
    /\ last' = [op |-> "calculate_indicators", calls |-> last.calls + 1,
                before |-> df, strategy_before |-> strategy]
    /\ pc' = "returned"
    /\ UNCHANGED <<config, strategy, risk, bot, today>>

InitIndicators ==
    /\ config = MakeConfig("futures", TypicalIndicators)
    /\ df \in CandleFrames
    /\ strategy \in {[StrategyInit EXCEPT !.current_position = p] : p \in Positions}
    /\ risk = RiskInit
    /\ bot = BotInit
    /\ today = 0
    /\ pc = "ready"
    /\ last = [op |-> "none", calls |-> 0]

NextIndicators == CalculateIndicators

SpecIndicators == InitIndicators /\ [][NextIndicators]_vars

(* C30: a second call of calculate_indicators, on the frame that carries  *)
(* the columns added by the first, leaves every column as it is; every    *)
(* call leaves the candles and the strategy's state as they are.          *)
C30_IndicatorIdempotence ==
    Returned("calculate_indicators") =>
        /\ last.calls >= 2 => df = last.before
        /\ \A c \in RawColumns : df[c] = last.before[c]
        /\ strategy = last.strategy_before

(* the second call on a window long enough for every indicator, with the  *)
(* volume ratio of a burst                                                *)
C30_Witness ==
    /\ Returned("calculate_indicators") /\ last.calls = 2
    /\ Len(df["close"]) = 35
    /\ "macd_signal" \in DOMAIN last.before /\ df["macd_signal"][35] # NaN
    /\ df["volume_ratio"][30] > 100
    /\ df["price_change_sma"][35] # NaN

----------------------------------------------------------------------------
(* tools/backtest.py.  The Backtester owns a TrendFollowingStrategy and   *)
(* its own position, entry price, balance and pnl; run_backtest hands the *)
(* growing window to generate_signal row by row, executes the signal and, *)
(* at the end of the data, closes what is left.  bot holds the            *)
(* Backtester's fields, today the number of rows handled.                 *)

InitialBalance == 10000
MaxRows == 3      \* the rows of the data handled after the skipped ones

BacktesterInit ==
    [position |-> 0, entry_price |-> 0, current_balance |-> InitialBalance,
     total_pnl |-> 0, total_trades |-> 0, winning_trades |-> 0]

(* _close_position *)
close_position(bt, price) ==
    IF bt.position = 0 THEN bt
    ELSE LET pnl == IF bt.position > 0
                    THEN (price - bt.entry_price) * bt.position
                    ELSE (bt.entry_price - price) * Abs(bt.position)
         IN [bt EXCEPT !.current_balance = IF bt.position > 0
                                           THEN @ + bt.position * price
                                           ELSE @ + pnl,
                       !.total_pnl = @ + pnl,
                       !.total_trades = @ + 1,
                       !.winning_trades = IF pnl > 0 THEN @ + 1 ELSE @,
                       !.position = 0,
                       !.entry_price = 0]

(* _execute_backtest_trade *)
execute_backtest_trade(bt, cfg, signal, price) ==
    LET trade_amount == cfg.trade_amount
        cost == trade_amount * price
    IN
    IF signal = "BUY" /\ bt.position <= 0 THEN
        IF bt.current_balance >= cost
        THEN [bt EXCEPT !.position = @ + trade_amount,
                        !.current_balance = @ - cost,
                        !.entry_price = price]
        ELSE bt
    ELSE IF signal = "SELL" /\ bt.position > 0 THEN close_position(bt, price)
    ELSE IF signal = "LONG" /\ bt.position <= 0
    THEN [bt EXCEPT !.position = trade_amount, !.entry_price = price]
    ELSE IF signal = "SHORT" /\ bt.position >= 0
    THEN [bt EXCEPT !.position = -trade_amount, !.entry_price = price]
    ELSE IF signal \in {"CLOSE_LONG", "CLOSE_SHORT"}
    THEN close_position(bt, price)
    ELSE bt

(* run_backtest, one row of the loop: the signal of the window that ends  *)
(* at the row is generated and, unless it is HOLD, executed               *)
BacktestRow ==
    /\ pc = "rows"
    /\ today < MaxRows
    /\ \E market \in Markets, price \in BotPrices :
         LET current_data == MarketWindow(market, price)
             g == generate_signal(current_data, strategy, config)
         IN /\ df' = current_data
            /\ strategy' = g.strategy
            /\ bot' = IF g.signal # "HOLD"
                      THEN execute_backtest_trade(bot, config, g.signal, price)
                      ELSE bot
            /\ last' = [op |-> "row", signal |-> g.signal, price |-> price,
                        before |-> bot]
    /\ today' = today + 1
    /\ UNCHANGED <<config, risk, pc>>

(* run_backtest, after the loop: a position left is closed at the last    *)
(* close of the data                                                      *)
FinalClose ==
    /\ pc = "rows"
    /\ today > 0
    /\ bot' = close_position(bot, last.price)
    /\ pc' = "done"
    /\ last' = [op |-> "final_close", signal |-> "HOLD", price |-> last.price,
                before |-> bot]
    /\ UNCHANGED <<config, df, strategy, risk, today>>

InitBacktest ==
    /\ config \in {MakeConfig(tt, TypicalIndicators) : tt \in {"spot", "futures"}}
    /\ df = NoWindow
    /\ strategy = StrategyInit
    /\ risk = RiskInit
    /\ bot = BacktesterInit
    /\ today = 0
    /\ pc = "rows"
    /\ last = NoCall

NextBacktest ==
    \/ BacktestRow
    \/ FinalClose

SpecBacktest == InitBacktest /\ [][NextBacktest]_vars

(* the signal generate_signal gives for the window when the position it   *)
(* reads is the position the backtester holds                             *)
SignalForHeld(w) ==
    generate_signal(w, [strategy EXCEPT !.current_position = bot.position],
                    config).signal

ExitSignals == {"SELL", "CLOSE_LONG", "CLOSE_SHORT"}

(* C38: backtest exits are reachable: whenever the backtester holds a     *)
(* position and a row's indicators satisfy the market conditions of the   *)
(* matching exit rule (spot SELL for a long; futures CLOSE_LONG for a     *)
(* long, CLOSE_SHORT for a short), generate_signal returns that exit      *)
(* signal and the position is closed at that row.                         *)
C38_BacktestExitsReachable ==
    [][(pc = "rows" /\ last'.op = "row" /\ bot.position # 0
          /\ SignalForHeld(df') \in ExitSignals) =>
          /\ last'.signal = SignalForHeld(df')
          /\ bot'.position = 0]_vars

(* what the backtester does instead: nothing tells the strategy of the    *)
(* trades, its position stays 0, no exit signal is ever returned, and no  *)
(* position is closed before the end of the data                          *)
C38_OnlyFinalClose ==
    /\ strategy.current_position = 0 /\ strategy.entry_price = 0
    /\ last.op = "row" => last.signal \notin ExitSignals
    /\ pc = "rows" => bot.total_trades = 0 /\ bot.total_pnl = 0

(* a long held through a row that meets the exit conditions *)
C38_ExitIgnored ==
    /\ last.op = "row" /\ last.before.position > 0
    /\ last.signal \notin ExitSignals
    /\ bot.position = last.before.position
    /\ generate_signal(df, [strategy EXCEPT !.current_position = last.before.position],
                       config).signal \in ExitSignals

(* C39: backtest balance conservation: whenever the backtester is flat    *)
(* after any sequence of entries and closes, current_balance =            *)
(* initial_balance + total_pnl, in spot mode and in futures mode, for     *)
(* long and for short round trips.                                        *)
C39_BalanceConserved ==
    bot.position = 0 => bot.current_balance = InitialBalance + bot.total_pnl

(* what holds: spot round trips and futures shorts conserve the balance;  *)
(* a futures long is opened without a debit and closed with a credit of   *)
(* the whole closing value                                                *)
C39_ConservedButFuturesLong ==
    bot.position = 0 =>
        IF last.op = "final_close" /\ config.trade_type = "futures"
              /\ last.before.position > 0
        THEN bot.current_balance =
                 InitialBalance + bot.total_pnl
                     + last.before.position * last.before.entry_price
        ELSE bot.current_balance = InitialBalance + bot.total_pnl

(* a futures short round trip that ends balanced *)
C39_ShortRoundTrip ==
    /\ pc = "done" /\ config.trade_type = "futures"
    /\ last.before.position < 0 /\ bot.total_pnl # 0
    /\ bot.current_balance = InitialBalance + bot.total_pnl

====
